---- MODULE Spec2Model ----
(***************************************************************************)
(* Verification model of the AML investigation toolkit (ReACT investigator,*)
(* fraud detection agent, tool executor) and of the financial advisor's    *)
(* LLM call path (retry_with_backoff, call_llm, provide_advice).           *)
(*                                                                         *)
(* Scores are fixed-point numbers in hundredths: 7.0 is 700, 10.0 is 1000. *)
(* A JSON object / Python dict is a TLA+ record (a function from keys).    *)
(***************************************************************************)
EXTENDS Integers, Sequences, FiniteSets, TLC

VARIABLES
    agent,                \* "react" (ReACTInvestigator) or "fraud" (FraudDetectionAgent)
    max_iterations,       \* self.max_iterations
    pc,                   \* position of investigate(): "loop", "compile", "returned", "raised"
    iteration,            \* loop variable of the for statement
    reasoning_trace,      \* list of trace entries
    all_tool_executions,  \* list of ToolExecution
    all_evidence,         \* list of Evidence
    fraud_indicators,     \* fraud agent only: collected indicator strings
    context,              \* tool results added to the next prompt
    llm_response,         \* the reply of the current iteration (NoReply before the first)
    llm_calls,            \* number of chat.completions.create calls made
    blocks_seen,          \* number of fenced blocks received so far (bounds the run)
    result,               \* the InvestigationResult returned, or NoResult
    tx_text,              \* tool executor harness: text given to parse_and_execute
    tx_call,              \* tool executor harness: (tool_name, parameters) given to execute
    tx_out,               \* tool executor harness: outcome of the last operation
    adv_pc,               \* advisor: position of provide_advice()
    adv_steps,            \* advisor: methods entered by the current provide_advice, in order
    attempt,              \* advisor: loop variable of retry_with_backoff's wrapper
    provider_calls,       \* advisor: provider client invocations of the current call_llm
    provider_errors,      \* advisor: provider-level failures seen by the current call_llm
    slept,                \* advisor: time.sleep delays of the current call_llm
    total_requests,       \* advisor: self.total_requests
    total_tokens,         \* advisor: self.total_tokens
    total_cost,           \* advisor: self.total_cost
    adv_outcome,          \* advisor: what the last provide_advice gave its caller
    adv_calls,            \* advisor: provide_advice calls made on this instance
    llm_return,           \* advisor: (text, usage) returned by call_llm, or NoReturn
    metrics,              \* advisor: what the last get_metrics() returned
    investigations,       \* AML API: the in-memory store, in dict insertion order
    api_now,              \* AML API: datetime.now()
    api_uuid,             \* AML API: number of uuid4 values drawn so far
    api_pc,               \* AML API: "idle", or "responded" until the client has the response
    api_resp,             \* AML API: the last request and its response
    api_live,             \* AML API: results of POSTs that returned 201 and were not deleted since
    api_gone,             \* AML API: investigation ids deleted so far
    api_cases,            \* AML API: case ids of the investigations returned so far
    conversation,         \* advisor: a Conversation (started_at, updated_at, turns)
    utcnow,               \* advisor: datetime.utcnow()
    add_turn_calls,       \* advisor: add_turn calls made on the conversation
    retry,                \* decorators: a call of a function under retry_with_backoff
    cache                 \* decorators: a function under cache_result, its cache and clock

inv_vars == <<agent, max_iterations, pc, iteration, reasoning_trace, all_tool_executions,
              all_evidence, fraud_indicators, context, llm_response, llm_calls,
              blocks_seen, result>>
tx_vars == <<tx_text, tx_call, tx_out>>
adv_vars == <<adv_pc, adv_steps, attempt, provider_calls, provider_errors, slept,
              total_requests, total_tokens, total_cost, adv_outcome, adv_calls, llm_return,
              metrics>>
api_vars ==
    <<investigations, api_now, api_uuid, api_pc, api_resp, api_live, api_gone, api_cases>>
conv_vars == <<conversation, utcnow, add_turn_calls>>
dec_vars == <<retry, cache>>
vars == <<inv_vars, tx_vars, adv_vars, api_vars, conv_vars, dec_vars>>

\* ------------------------------------------------------------------ bounds
MaxIter == 2          \* largest max_iterations explored
MaxCalls == 2         \* fenced blocks per investigation (and per reply)
MaxAdvice == 3        \* provide_advice calls per advisor instance

\* --------------------------------------------------------------- utilities
Get(d, k, default) == IF k \in DOMAIN d THEN d[k] ELSE default

Min(a, b) == IF a <= b THEN a ELSE b

RECURSIVE SumSeq(_)
SumSeq(s) == IF s = << >> THEN 0 ELSE Head(s) + SumSeq(Tail(s))

RECURSIVE FlatMap(_, _)
FlatMap(F(_), s) == IF s = << >> THEN << >> ELSE F(Head(s)) \o FlatMap(F, Tail(s))

SelectIdx(s, P(_)) == {i \in 1..Len(s) : P(s[i])}

CountSeq(s, P(_)) == Cardinality(SelectIdx(s, P))

\* ---------------------------------------------------------------- settings
ctr_threshold == 10000
sar_risk_threshold == 700
default_max_iterations == 5

\* ---------------------------------------------------------------- mock data
MOCK_CUSTOMERS ==
    [CUST_001 |-> [customer_id |-> "CUST_001", name |-> "Maria Santos", annual_income |-> 54000,
                   risk_score |-> 620, previous_sars |-> 0, pep_status |-> FALSE,
                   high_risk_country |-> FALSE, has_business_type |-> TRUE,
                   cash_intensive_business |-> TRUE],
     CUST_002 |-> [customer_id |-> "CUST_002", name |-> "John Davidson", annual_income |-> 180000,
                   risk_score |-> 780, previous_sars |-> 1, pep_status |-> FALSE,
                   high_risk_country |-> TRUE, has_business_type |-> TRUE,
                   cash_intensive_business |-> TRUE],
     CUST_003 |-> [customer_id |-> "CUST_003", name |-> "Sarah Chen", annual_income |-> 125000,
                   risk_score |-> 210, previous_sars |-> 0, pep_status |-> FALSE,
                   high_risk_country |-> FALSE, has_business_type |-> FALSE,
                   cash_intensive_business |-> FALSE]]

MOCK_TRANSACTIONS ==
    [high_risk_account_001 |->
        << [date |-> "2025-09-15", amount |-> 9800, type |-> "cash_deposit"],
           [date |-> "2025-09-14", amount |-> 9750, type |-> "cash_deposit"],
           [date |-> "2025-09-13", amount |-> 9900, type |-> "cash_deposit"],
           [date |-> "2025-09-12", amount |-> 9850, type |-> "cash_deposit"],
           [date |-> "2025-09-11", amount |-> 9600, type |-> "cash_deposit"] >>,
     business_account_002 |->
        << [date |-> "2025-09-10", amount |-> 45000, type |-> "wire_transfer_incoming"],
           [date |-> "2025-09-08", amount |-> 38000, type |-> "wire_transfer_outgoing"],
           [date |-> "2025-09-05", amount |-> 52000, type |-> "wire_transfer_incoming"] >>,
     normal_account |->
        << [date |-> "2025-09-15", amount |-> 3200, type |-> "paycheck_deposit"],
           [date |-> "2025-09-10", amount |-> 1500, type |-> "rent_payment"],
           [date |-> "2025-09-05", amount |-> 250, type |-> "atm_withdrawal"] >>]

get_mock_customer(customer_id) ==
    IF customer_id \in DOMAIN MOCK_CUSTOMERS THEN MOCK_CUSTOMERS[customer_id] ELSE << >>

get_mock_transactions(account_id) ==
    IF account_id \in DOMAIN MOCK_TRANSACTIONS THEN MOCK_TRANSACTIONS[account_id] ELSE << >>

\* ------------------------------------------------- tool function outcomes
\* A tool function either returns a dict or raises.
Ok(value) == [raised |-> FALSE, value |-> value]

Raise(exc) == [raised |-> TRUE, error |-> exc]

\* ------------------------------------------------------- transaction tools
get_transaction_history(kw) ==
    LET account_id == kw.account_id
        days == Get(kw, "days", 30)
        transactions == get_mock_transactions(account_id)
        amounts == [i \in 1..Len(transactions) |-> transactions[i].amount]
    IN  IF transactions = << >>
        THEN Ok([account_id |-> account_id, period_days |-> days, transaction_count |-> 0,
                 total_amount |-> 0, transactions |-> << >>,
                 error |-> "No transactions found for this account"])
        ELSE Ok([account_id |-> account_id, period_days |-> days,
                 transaction_count |-> Len(transactions),
                 total_amount |-> SumSeq(amounts),
                 transactions |-> transactions,
                 cash_deposit_count |-> CountSeq(transactions, LAMBDA t : t.type = "cash_deposit"),
                 cash_withdrawal_count |-> CountSeq(transactions, LAMBDA t : t.type = "cash_withdrawal"),
                 wire_transfer_count |->
                     CountSeq(transactions, LAMBDA t : t.type \in {"wire_transfer_incoming", "wire_transfer_outgoing"})])

analyze_transaction_patterns(kw) ==
    LET account_id == kw.account_id
        days == Get(kw, "days", 30)
        history == get_transaction_history(kw).value
        transactions == history.transactions
        n == Len(transactions)
        under_threshold == CountSeq(transactions, LAMBDA t : t.amount < 10000 /\ t.amount > 9000)
        round_amounts == CountSeq(transactions, LAMBDA t : t.amount % 100 = 0)
        multiple_per_day ==
            {d \in {transactions[i].date : i \in 1..n} :
                Cardinality({i \in 1..n : transactions[i].date = d}) > 1}
        structuring ==
            IF under_threshold >= 3
            THEN << [pattern |-> "potential_structuring", severity |-> "high"] >> ELSE << >>
        velocity ==
            IF n > 10 /\ days <= 14
            THEN << [pattern |-> "high_velocity", severity |-> "medium"] >> ELSE << >>
        rounds ==
            IF round_amounts * 10 > 7 * n
            THEN << [pattern |-> "round_amounts", severity |-> "low"] >> ELSE << >>
        daily ==
            IF Cardinality(multiple_per_day) >= 2
            THEN << [pattern |-> "multiple_daily_transactions", severity |-> "medium"] >> ELSE << >>
        patterns_detected == structuring \o velocity \o rounds \o daily
        high_risk_patterns == CountSeq(patterns_detected, LAMBDA p : p.severity = "high")
        medium_risk_patterns == CountSeq(patterns_detected, LAMBDA p : p.severity = "medium")
    IN  IF "error" \in DOMAIN history
        THEN Ok(history)
        ELSE Ok([account_id |-> account_id, analysis_period_days |-> days,
                 patterns_detected |-> patterns_detected,
                 overall_risk |-> IF high_risk_patterns > 0 THEN "high"
                                  ELSE IF medium_risk_patterns >= 2 THEN "high"
                                  ELSE IF medium_risk_patterns > 0 THEN "medium"
                                  ELSE "low"])

\* ---------------------------------------------------------- customer tools
get_customer_profile(kw) ==
    LET customer_data == get_mock_customer(kw.customer_id)
    IN  IF customer_data = << >>
        THEN Ok([customer_id |-> kw.customer_id, error |-> "Customer not found"])
        ELSE Ok(customer_data)

search_negative_news(kw) ==
    LET items_found == IF kw.customer_name = "John Davidson" THEN 1 ELSE 0
    IN  Ok([customer_name |-> kw.customer_name, items_found |-> items_found,
            requires_review |-> items_found > 0])

\* The returned dict refers to self._get_risk_recommendation in a module-level
\* function: building it raises NameError for every customer that is found.
assess_customer_risk(kw) ==
    LET profile == get_customer_profile(kw).value
    IN  IF "error" \in DOMAIN profile
        THEN Ok(profile)
        ELSE Raise("NameError: name 'self' is not defined")

\* -------------------------------------------------------- regulatory tools
WireTypes == {"wire_transfer_incoming", "wire_transfer_outgoing", "wire_transfer"}

CashTypes == {"cash_deposit", "cash_withdrawal"}

\* Types whose lower-cased name contains "international".
InternationalTypes == {"international_transfer"}

\* A structuring window that starts above 9000.
PotentialStructuringStrict(amount) == 9000 < amount /\ amount < ctr_threshold

\* 9000 <= transaction_amount < ctr_threshold
PotentialStructuring(amount) == 9000 <= amount /\ amount < ctr_threshold

check_regulatory_thresholds(kw) ==
    LET amount == kw.transaction_amount
        type == kw.transaction_type
        structuring == PotentialStructuring(amount)
        sar_indicators == IF structuring THEN << "potential_structuring" >> ELSE << >>
        base == [amount |-> amount, type |-> type, ctr_threshold |-> ctr_threshold,
                 ctr_required |-> amount >= ctr_threshold,
                 sar_indicators |-> sar_indicators]
        s1 == IF structuring
              THEN [below_ctr_threshold |-> TRUE, potential_structuring |-> TRUE] ELSE << >>
        s2 == IF type \in WireTypes THEN [wire_monitoring |-> TRUE] ELSE << >>
        s3 == IF type \in InternationalTypes \/ amount >= 10000
              THEN [enhanced_monitoring |-> TRUE] ELSE << >>
        s4 == IF type \in CashTypes THEN [cash_transaction |-> TRUE] ELSE << >>
        s5 == IF Len(sar_indicators) > 0 THEN [sar_consideration_required |-> TRUE] ELSE << >>
    IN  Ok(base @@ s1 @@ s2 @@ s3 @@ s4 @@ s5)

calculate_risk_score(kw) ==
    LET customer_profile == kw.customer_profile
        transaction_history == kw.transaction_history
        base_score == Get(customer_profile, "risk_score", 500)
        txn_count == Get(transaction_history, "transaction_count", 0)
        period_days == Get(transaction_history, "period_days", 30)
        txns_per_day == IF period_days > 0 THEN (txn_count * 100) \div period_days ELSE 0
        a1 == IF txns_per_day > 200 THEN Min(txns_per_day - 200, 200) ELSE 0
        cash_deposit_count == Get(transaction_history, "cash_deposit_count", 0)
        a2 == IF cash_deposit_count >= 5 THEN Min(cash_deposit_count * 30, 200) ELSE 0
        avg_amount == Get(transaction_history, "avg_transaction_amount", 0)
        annual_income == Get(customer_profile, "annual_income", 1)
        a3 == IF avg_amount * 12 > annual_income THEN 150 ELSE 0
        previous_sars == Get(customer_profile, "previous_sars", 0)
        a4 == IF previous_sars > 0 THEN previous_sars * 100 ELSE 0
        final_score == Min(base_score + a1 + a2 + a3 + a4, 1000)
    IN  Ok([base_risk_score |-> base_score,
            total_adjustment |-> a1 + a2 + a3 + a4,
            final_risk_score |-> final_score,
            risk_level |-> IF final_score >= 800 THEN "critical"
                           ELSE IF final_score >= 600 THEN "high"
                           ELSE IF final_score >= 400 THEN "medium" ELSE "low",
            sar_recommended |-> final_score >= sar_risk_threshold])

\* A window that includes 90% of the threshold itself.
UnderThresholdInclusive(t) ==
    Get(t, "amount", 0) < ctr_threshold /\ Get(t, "amount", 0) * 10 >= ctr_threshold * 9

\* t.get("amount", 0) < ctr_threshold and t.get("amount", 0) > ctr_threshold * 0.9
UnderThreshold(t) ==
    Get(t, "amount", 0) < ctr_threshold /\ Get(t, "amount", 0) * 10 > ctr_threshold * 9

\* A total compared with twice the threshold.
TotalExceedsTwiceThreshold(total_amount, count) ==
    total_amount >= 2 * ctr_threshold /\ count >= 2

\* total_amount >= ctr_threshold and len(under_threshold) >= 2
TotalExceedsThreshold(total_amount, count) == total_amount >= ctr_threshold /\ count >= 2

assess_structuring_risk(kw) ==
    LET transactions == kw.transactions
        n == Len(transactions)
        under == SelectIdx(transactions, UnderThreshold)
        count == Cardinality(under)
        amounts == [i \in 1..n |-> IF i \in under THEN Get(transactions[i], "amount", 0) ELSE 0]
        total_amount == SumSeq(amounts)
        dated == {i \in under : "date" \in DOMAIN transactions[i]}
        same_day_count ==
            Cardinality({d \in {transactions[i].date : i \in dated} :
                Cardinality({i \in dated : transactions[i].date = d}) > 1})
        structuring_indicators ==
            (IF count >= 2 THEN << "multiple_under_threshold" >> ELSE << >>)
            \o (IF TotalExceedsThreshold(total_amount, count)
                THEN << "total_exceeds_threshold" >> ELSE << >>)
            \o (IF same_day_count > 0 THEN << "same_day_transactions" >> ELSE << >>)
        indicators_found == Len(structuring_indicators)
        risk_level == IF indicators_found >= 3 THEN "critical"
                      ELSE IF indicators_found >= 2 THEN "high"
                      ELSE IF indicators_found >= 1 THEN "medium" ELSE "low"
    IN  IF transactions = << >>
        THEN Ok([error |-> "No transactions provided"])
        ELSE Ok([structuring_risk_level |-> risk_level,
                 indicators_found |-> indicators_found,
                 indicators |-> structuring_indicators,
                 transactions_analyzed |-> n,
                 under_threshold_transactions |-> count,
                 total_amount |-> total_amount,
                 sar_recommended |-> risk_level \in {"critical", "high"}])

\* ----------------------------------------------------- fraud detection tools
mock_velocities ==
    [ACCT_12345 |-> [transactions_count |-> 15, unique_merchants |-> 12, total_amount |-> 4500,
                     avg_time_between_txns_minutes |-> 8],
     ACCT_67890 |-> [transactions_count |-> 3, unique_merchants |-> 3, total_amount |-> 156,
                     avg_time_between_txns_minutes |-> 180]]

analyze_transaction_velocity(kw) ==
    LET hours == Get(kw, "hours", 24)
        data == mock_velocities[kw.account_id]
        \* transactions_count / hours > 2
        fast == hours > 0 /\ data.transactions_count > 2 * hours
        i1 == IF fast THEN << "High transaction frequency" >> ELSE << >>
        i2 == IF data.avg_time_between_txns_minutes < 15
              THEN << "Very short time between transactions" >> ELSE << >>
        i3 == IF data.unique_merchants = data.transactions_count
              THEN << "Each transaction at different merchant" >> ELSE << >>
        i4 == IF data.total_amount > 3000 THEN << "High total transaction value" >> ELSE << >>
        fraud_score == (IF fast THEN 3 ELSE 0) + (IF Len(i2) > 0 THEN 2 ELSE 0)
                       + (IF Len(i3) > 0 THEN 2 ELSE 0) + (IF Len(i4) > 0 THEN 1 ELSE 0)
    IN  IF kw.account_id \notin DOMAIN mock_velocities
        THEN Ok([transactions_count |-> 0, error |-> "Account not found"])
        ELSE IF hours = 0
        THEN Raise("ZeroDivisionError: division by zero")
        ELSE Ok(data @@ [time_window_hours |-> hours,
                         fraud_score |-> Min(fraud_score, 10) * 100,
                         risk_indicators |-> i1 \o i2 \o i3 \o i4,
                         fraud_likelihood |-> IF fraud_score >= 6 THEN "high"
                                              ELSE IF fraud_score >= 3 THEN "medium" ELSE "low"])

customer_patterns ==
    [ACCT_12345 |-> [home_location |-> "New York, USA",
                     typical_locations |-> {"New York", "Boston", "Philadelphia"},
                     recent_locations |-> << "New York", "Boston" >>],
     ACCT_67890 |-> [home_location |-> "London, UK",
                     typical_locations |-> {"London", "Manchester", "Paris"},
                     recent_locations |-> << "London" >>]]

check_geographic_anomaly(kw) ==
    LET pattern == customer_patterns[kw.account_id]
        transaction_location == kw.transaction_location
        is_typical == transaction_location \in pattern.typical_locations
        impossible == pattern.recent_locations # << >>
                      /\ pattern.recent_locations[1] # transaction_location /\ ~is_typical
        fraud_inds ==
            (IF ~is_typical THEN << "Transaction in unusual location" >> ELSE << >>)
            \o (IF impossible THEN << "Potential impossible travel scenario" >> ELSE << >>)
        risk_score == (IF ~is_typical THEN 4 ELSE 0) + (IF impossible THEN 3 ELSE 0)
    IN  IF kw.account_id \notin DOMAIN customer_patterns
        THEN Ok([error |-> "Account not found"])
        ELSE Ok([account_id |-> kw.account_id,
                 transaction_location |-> transaction_location,
                 is_typical_location |-> is_typical,
                 fraud_indicators |-> fraud_inds,
                 risk_score |-> Min(risk_score, 10) * 100,
                 fraud_likelihood |-> IF risk_score >= 6 THEN "high"
                                      ELSE IF risk_score >= 3 THEN "medium" ELSE "low"])

device_history == [ACCT_12345 |-> {"DEV_ABC123", "DEV_XYZ789"}]

analyze_device_fingerprint(kw) ==
    LET known_devices == IF kw.account_id \in DOMAIN device_history
                         THEN device_history[kw.account_id] ELSE {}
        is_new_device == kw.device_id \notin known_devices
        risk_score == IF is_new_device THEN 5 ELSE 0
    IN  Ok([account_id |-> kw.account_id, device_id |-> kw.device_id,
            is_new_device |-> is_new_device,
            fraud_indicators |-> IF is_new_device
                                 THEN << "Transaction from new/unknown device" >> ELSE << >>,
            risk_score |-> risk_score * 100,
            recommendation |-> IF risk_score >= 5 THEN "Block transaction"
                               ELSE "Allow with monitoring"])

baselines ==
    [ACCT_12345 |-> [avg_transaction_amount |-> 75, max_single_transaction |-> 500,
                     typical_categories |-> {"groceries", "gas", "restaurants"},
                     typical_transaction_time |-> "daytime"]]

check_behavioral_anomalies(kw) ==
    LET baseline == baselines[kw.account_id]
        current_behavior == kw.current_behavior
        current_amount == Get(current_behavior, "amount", 0)
        current_category == Get(current_behavior, "category", "")
        current_time == Get(current_behavior, "time", "daytime")
        c1 == current_amount > baseline.avg_transaction_amount * 5
        c2 == current_amount > baseline.max_single_transaction
        c3 == current_category \notin baseline.typical_categories
        c4 == current_time # baseline.typical_transaction_time
        anomalies ==
            (IF c1 THEN << "Transaction amount is 5x normal average" >> ELSE << >>)
            \o (IF c2 THEN << "Exceeds typical maximum transaction amount" >> ELSE << >>)
            \o (IF c3 THEN << "Unusual merchant category" >> ELSE << >>)
            \o (IF c4 THEN << "Transaction at unusual time" >> ELSE << >>)
        risk_score == (IF c1 THEN 3 ELSE 0) + (IF c2 THEN 2 ELSE 0)
                      + (IF c3 THEN 1 ELSE 0) + (IF c4 THEN 1 ELSE 0)
    IN  IF kw.account_id \notin DOMAIN baselines
        THEN Ok([error |-> "Account baseline not found"])
        ELSE Ok([account_id |-> kw.account_id,
                 anomalies_detected |-> anomalies,
                 anomaly_count |-> Len(anomalies),
                 risk_score |-> Min(risk_score, 10) * 100,
                 fraud_likelihood |-> IF risk_score >= 6 THEN "high"
                                      ELSE IF risk_score >= 3 THEN "medium" ELSE "low"])

assess_fraud_probability(kw) ==
    LET indicators == kw.indicators
        n == Len(indicators)
        total_risk == SumSeq([i \in 1..n |-> Get(indicators[i], "risk_score", 0)])
        high_risk_count ==
            CountSeq(indicators, LAMBDA d : Get(d, "fraud_likelihood", "") = "high")
        avg_risk == total_risk \div n
    IN  IF indicators = << >>
        THEN Ok([error |-> "No indicators provided"])
        ELSE Ok([overall_risk_score |-> avg_risk,
                 fraud_decision |-> IF avg_risk >= 700 \/ high_risk_count >= 2 THEN "CONFIRMED_FRAUD"
                                    ELSE IF avg_risk >= 500 THEN "SUSPECTED_FRAUD"
                                    ELSE IF avg_risk >= 300 THEN "NEEDS_REVIEW"
                                    ELSE "LEGITIMATE",
                 indicators_analyzed |-> n,
                 high_risk_indicators |-> high_risk_count])

\* ------------------------------------------------------------ JSON values
\* The "tool" value of a decoded block is any JSON value.  Strings stand for
\* themselves; two more values stand for the other JSON types.
NonStringName == "<number>"      \* a hashable value that is not a str
UnhashableName == "<array>"      \* a list or dict: not hashable

Hashable(tool_name) == tool_name # UnhashableName

IsStr(tool_name) == tool_name \notin {NonStringName, UnhashableName}

\* The "parameters" value: a JSON object (mapping, with its keys and values
\* in kw) or any other JSON value (array, string, number, null).
Mapping(kw) == [mapping |-> TRUE, kw |-> kw]

NotMapping == [mapping |-> FALSE]

\* Optional[str] fields hold a list of text fragments; None is the empty list.
None == << >>

\* ------------------------------------------------------------ ToolExecutor
tools ==
    << "get_transaction_history", "analyze_transaction_patterns", "get_customer_profile",
       "search_negative_news", "assess_customer_risk", "check_regulatory_thresholds",
       "calculate_risk_score", "assess_structuring_risk" >>

fraud_tools ==
    << "analyze_transaction_velocity", "check_geographic_anomaly", "analyze_device_fingerprint",
       "check_behavioral_anomalies", "assess_fraud_probability" >>

Keys(registry) == {registry[i] : i \in 1..Len(registry)}

\* Keyword parameters of each tool function: required and defaulted.
Signature(tool_name) ==
    CASE tool_name \in {"get_transaction_history", "analyze_transaction_patterns"}
            -> [required |-> {"account_id"}, optional |-> {"days"}]
      [] tool_name \in {"get_customer_profile", "assess_customer_risk"}
            -> [required |-> {"customer_id"}, optional |-> {}]
      [] tool_name = "search_negative_news"
            -> [required |-> {"customer_name"}, optional |-> {}]
      [] tool_name = "check_regulatory_thresholds"
            -> [required |-> {"transaction_amount", "transaction_type"}, optional |-> {}]
      [] tool_name = "calculate_risk_score"
            -> [required |-> {"customer_profile", "transaction_history"}, optional |-> {}]
      [] tool_name = "assess_structuring_risk"
            -> [required |-> {"transactions"}, optional |-> {}]
      [] tool_name = "analyze_transaction_velocity"
            -> [required |-> {"account_id"}, optional |-> {"hours"}]
      [] tool_name = "check_geographic_anomaly"
            -> [required |-> {"account_id", "transaction_location"}, optional |-> {}]
      [] tool_name = "analyze_device_fingerprint"
            -> [required |-> {"account_id", "device_id"}, optional |-> {}]
      [] tool_name = "check_behavioral_anomalies"
            -> [required |-> {"account_id", "current_behavior"}, optional |-> {}]
      [] tool_name = "assess_fraud_probability"
            -> [required |-> {"indicators"}, optional |-> {}]

ToolBody(tool_name, kw) ==
    CASE tool_name = "get_transaction_history" -> get_transaction_history(kw)
      [] tool_name = "analyze_transaction_patterns" -> analyze_transaction_patterns(kw)
      [] tool_name = "get_customer_profile" -> get_customer_profile(kw)
      [] tool_name = "search_negative_news" -> search_negative_news(kw)
      [] tool_name = "assess_customer_risk" -> assess_customer_risk(kw)
      [] tool_name = "check_regulatory_thresholds" -> check_regulatory_thresholds(kw)
      [] tool_name = "calculate_risk_score" -> calculate_risk_score(kw)
      [] tool_name = "assess_structuring_risk" -> assess_structuring_risk(kw)
      [] tool_name = "analyze_transaction_velocity" -> analyze_transaction_velocity(kw)
      [] tool_name = "check_geographic_anomaly" -> check_geographic_anomaly(kw)
      [] tool_name = "analyze_device_fingerprint" -> analyze_device_fingerprint(kw)
      [] tool_name = "check_behavioral_anomalies" -> check_behavioral_anomalies(kw)
      [] tool_name = "assess_fraud_probability" -> assess_fraud_probability(kw)

\* tool_func(**parameters): unpacking needs a mapping, binding needs every
\* required keyword and no unknown one; both failures are TypeError.
tool_func(tool_name, parameters) ==
    IF ~parameters.mapping
    THEN Raise("TypeError: argument after ** must be a mapping")
    ELSE IF ~(Signature(tool_name).required \subseteq DOMAIN parameters.kw
              /\ DOMAIN parameters.kw \subseteq
                    Signature(tool_name).required \cup Signature(tool_name).optional)
    THEN Raise("TypeError: missing or unexpected keyword argument")
    ELSE ToolBody(tool_name, parameters.kw)

\* The dict execute builds from what tool_func returned or raised.
execute_result(tool_name, parameters, r) ==
    IF ~r.raised
    THEN [success |-> TRUE, tool |-> tool_name, parameters |-> parameters,
          result |-> r.value, execution_time_ms |-> 0]
    ELSE [success |-> FALSE, tool |-> tool_name, parameters |-> parameters,
          error |-> << "Tool execution failed:", r.error >>, execution_time_ms |-> 0]

\* ToolExecutor.execute
execute(tool_name, parameters) ==
    IF ~Hashable(tool_name)
    THEN Raise("TypeError: unhashable type")
    ELSE IF tool_name \notin Keys(tools)
    THEN Ok([success |-> FALSE,
             error |-> << "Tool not found. Available tools:" >> \o tools])
    ELSE Ok(execute_result(tool_name, parameters, tool_func(tool_name, parameters)))

\* The dict _execute_tool builds from what tool_func returned or raised.
_execute_tool_result(tool_name, parameters, r) ==
    IF ~r.raised
    THEN [success |-> TRUE, tool |-> tool_name, parameters |-> parameters,
          result |-> r.value, execution_time_ms |-> 0]
    ELSE [success |-> FALSE, tool |-> tool_name, parameters |-> parameters,
          error |-> << r.error >>, execution_time_ms |-> 0]

\* FraudDetectionAgent._execute_tool
_execute_tool(tool_name, parameters) ==
    IF ~Hashable(tool_name)
    THEN Raise("TypeError: unhashable type")
    ELSE IF tool_name \notin Keys(fraud_tools)
    THEN Ok([success |-> FALSE, tool |-> tool_name, parameters |-> parameters,
             error |-> << "Tool not found" >>])
    ELSE Ok(_execute_tool_result(tool_name, parameters, tool_func(tool_name, parameters)))

\* ------------------------------------------------------- reply text, regex
\* An LLM reply is a list of fenced ```json blocks plus the surrounding prose,
\* of which only the termination markers matter.  A block is one of
\*   "call"    an object with both keys "tool" and "parameters"
\*   "nokey"   a JSON object lacking one of the keys
\*   "badjson" text in braces that is not JSON, e.g. {tool: x}
\*   "trunc"   JSON cut short: it starts with { but no } precedes the fence
Call(tool_name, parameters) == [kind |-> "call", tool |-> tool_name, parameters |-> parameters]

NoKey == [kind |-> "nokey"]

BadJson == [kind |-> "badjson"]

Trunc == [kind |-> "trunc"]

\* The block's text ends with } (followed by the closing fence).
EndsWithBrace(block) == block.kind # "trunc"

\* r'```json\s*(\{[\s\S]*?\})\s*```' : the lazy group runs from the { of
\* block i to the first } that is followed by a fence, i.e. to the end of the
\* first block j >= i that ends with }; the search resumes after block j.
MatchEnd(blocks, i) ==
    IF \E j \in i..Len(blocks) : EndsWithBrace(blocks[j])
    THEN CHOOSE j \in i..Len(blocks) :
            EndsWithBrace(blocks[j]) /\ \A k \in i..(j - 1) : ~EndsWithBrace(blocks[k])
    ELSE 0

\* json.loads of the matched group, then the key check: the tool call it
\* yields, if any.  A group spanning several blocks contains fences and is
\* not JSON.
DecodeGroup(blocks, i, j) ==
    IF i = j /\ blocks[i].kind = "call"
    THEN << [tool |-> blocks[i].tool, parameters |-> blocks[i].parameters] >>
    ELSE << >>

RECURSIVE ScanFrom(_, _)
ScanFrom(blocks, i) ==
    IF i > Len(blocks) \/ MatchEnd(blocks, i) = 0
    THEN << >>
    ELSE DecodeGroup(blocks, i, MatchEnd(blocks, i)) \o ScanFrom(blocks, MatchEnd(blocks, i) + 1)

\* ToolExecutor._extract_tool_calls
_extract_tool_calls(text) == ScanFrom(text.blocks, 1)

\* Run a dispatcher over the extracted calls, in order; the first call that
\* raises ends the whole operation.
\* results.append(result) unless the call, or a later one, raised.
AppendResult(first, rest) ==
    IF first.raised THEN first
    ELSE IF rest.raised THEN rest
    ELSE Ok(<< first.value >> \o rest.value)

RECURSIVE ExecuteAll(_, _)
ExecuteAll(Exec(_, _), tool_calls) ==
    IF tool_calls = << >>
    THEN Ok(<< >>)
    ELSE AppendResult(Exec(Head(tool_calls).tool, Head(tool_calls).parameters),
                      ExecuteAll(Exec, Tail(tool_calls)))

\* ToolExecutor.parse_and_execute
parse_and_execute(llm_text) == ExecuteAll(execute, _extract_tool_calls(llm_text))

\* FraudDetectionAgent._parse_and_execute_tools
_parse_and_execute_tools(agent_text) == ExecuteAll(_execute_tool, ScanFrom(agent_text.blocks, 1))

\* ------------------------------------------------------- prose of a reply
\* The prose around the blocks, as far as the termination checks read it.
Upper(prose) ==
    CASE prose = "we should file a sar" -> "WE SHOULD FILE A SAR"
      [] prose = "fraud is confirmed" -> "FRAUD IS CONFIRMED"
      [] OTHER -> prose

Contains(prose, needle) ==
    <<prose, needle>> \in
        { <<"FINAL RECOMMENDATION: monitor", "FINAL RECOMMENDATION">>,
          <<"WE SHOULD FILE A SAR", "SAR">>,
          <<"FINAL DECISION: legitimate", "FINAL DECISION">>,
          <<"FRAUD IS CONFIRMED", "CONFIRMED">> }

\* ------------------------------------------------------------ model inputs
ReactProse == {"thinking", "FINAL RECOMMENDATION: monitor", "we should file a sar"}

FraudProse == {"thinking", "FINAL DECISION: legitimate", "fraud is confirmed"}

\* Tool calls an LLM reply may carry to the ReACT investigator.
ReactCalls ==
    { Call("lookup_sanctions", Mapping(<< >>)),
      Call(UnhashableName, Mapping(<< >>)),
      Call("get_customer_profile", NotMapping),
      Call("get_customer_profile", Mapping([customer_id |-> "CUST_003"])),
      Call("get_transaction_history", Mapping([account |-> "normal_account"])),
      Call("analyze_transaction_patterns", Mapping([account_id |-> "high_risk_account_001"])),
      Call("analyze_transaction_patterns", Mapping([account_id |-> "business_account_002"])),
      Call("assess_customer_risk", Mapping([customer_id |-> "CUST_001"])),
      Call("assess_customer_risk", Mapping([customer_id |-> "CUST_404"])),
      Call("calculate_risk_score",
           Mapping([customer_profile |-> [risk_score |-> -300], transaction_history |-> << >>])),
      Call("calculate_risk_score",
           Mapping([customer_profile |-> [risk_score |-> 650], transaction_history |-> << >>])),
      Call("calculate_risk_score",
           Mapping([customer_profile |-> [risk_score |-> 780, previous_sars |-> 1],
                    transaction_history |-> [cash_deposit_count |-> 5]])),
      Call("assess_structuring_risk",
           Mapping([transactions |-> << [amount |-> 9800, date |-> "2025-01-01"],
                                        [amount |-> 9750, date |-> "2025-01-02"] >>])),
      Call("assess_structuring_risk", Mapping([transactions |-> << >>])),
      Call("check_regulatory_thresholds",
           Mapping([transaction_amount |-> 9500, transaction_type |-> "cash_deposit"])) }

\* Tool calls an LLM reply may carry to the fraud agent.
FraudCalls ==
    { Call("freeze_account", Mapping(<< >>)),
      Call(UnhashableName, Mapping(<< >>)),
      Call(NonStringName, Mapping(<< >>)),
      Call("analyze_device_fingerprint", NotMapping),
      Call("analyze_transaction_velocity", Mapping([account_id |-> "ACCT_12345", hours |-> 0])),
      Call("analyze_transaction_velocity", Mapping([account_id |-> "ACCT_12345", hours |-> 1])),
      Call("analyze_transaction_velocity", Mapping([account_id |-> "ACCT_67890"])),
      Call("check_geographic_anomaly",
           Mapping([account_id |-> "ACCT_12345", transaction_location |-> "Lagos"])),
      Call("analyze_device_fingerprint",
           Mapping([account_id |-> "ACCT_12345", device_id |-> "DEV_NEW"])),
      Call("check_behavioral_anomalies",
           Mapping([account_id |-> "ACCT_12345",
                    current_behavior |-> [amount |-> 900, category |-> "jewelry"]])),
      Call("assess_fraud_probability", Mapping([indicators |-> << [risk_score |-> -200] >>])),
      Call("assess_fraud_probability", Mapping([indicators |-> << [risk_score |-> 1500] >>])),
      Call("assess_fraud_probability",
           Mapping([indicators |-> << [risk_score |-> 700], [risk_score |-> 900] >>])),
      Call("assess_fraud_probability",
           Mapping([indicators |-> << [risk_score |-> 700, fraud_likelihood |-> "high"] >>])),
      Call("assess_fraud_probability", Mapping([indicators |-> << [risk_score |-> 300] >>])) }

Blocks(ag) == (IF ag = "react" THEN ReactCalls ELSE FraudCalls) \cup {NoKey, BadJson, Trunc}

BlockSeqs(ag, n) == UNION {[1..k -> Blocks(ag)] : k \in 0..n}

\* Replies with at most n fenced blocks.
Replies(ag, n) ==
    {[blocks |-> b, prose |-> p] :
        b \in BlockSeqs(ag, n), p \in (IF ag = "react" THEN ReactProse ELSE FraudProse)}

NoReply == [blocks |-> << >>, prose |-> ""]

\* ------------------------------------------------------------ result models
NoTime == -1      \* execution_time_ms is None

\* ToolExecution(tool_name=result["tool"], parameters=result["parameters"], ...):
\* a missing key is a KeyError; pydantic rejects a tool_name that is not a str
\* and parameters that are not a dict.
ToolExecution(res) ==
    IF "tool" \notin DOMAIN res
    THEN Raise("KeyError: 'tool'")
    ELSE IF "parameters" \notin DOMAIN res
    THEN Raise("KeyError: 'parameters'")
    ELSE IF ~IsStr(res.tool) \/ ~res.parameters.mapping
    THEN Raise("ValidationError: ToolExecution")
    ELSE Ok([tool_name |-> res.tool,
             parameters |-> res.parameters,
             result |-> Get(res, "result", << >>),
             execution_time_ms |-> Get(res, "execution_time_ms", NoTime),
             success |-> res.success,
             error |-> Get(res, "error", None)])

Evidence(evidence_type, description, severity, source) ==
    [evidence_type |-> evidence_type, description |-> description,
     severity |-> severity, source |-> source]

ContainsPrevious(factor) == factor = "Previous SARs filed"

\* ReACTInvestigator._extract_evidence
_extract_evidence(tool_result) ==
    LET tool_name == tool_result.tool
        result_data == Get(tool_result, "result", << >>)
        patterns == Get(result_data, "patterns_detected", << >>)
        risk_factors == Get(result_data, "risk_factors", << >>)
    IN  IF ~Get(tool_result, "success", FALSE) THEN << >>
        ELSE IF tool_name = "analyze_transaction_patterns"
        THEN [i \in 1..Len(patterns) |->
                Evidence("transaction_pattern", patterns[i].pattern,
                         Get(patterns[i], "severity", "medium"), tool_name)]
        ELSE IF tool_name = "assess_customer_risk"
        THEN [i \in 1..Len(risk_factors) |->
                Evidence("risk_factor", risk_factors[i],
                         IF ContainsPrevious(risk_factors[i]) THEN "high" ELSE "medium",
                         tool_name)]
        ELSE IF tool_name = "assess_structuring_risk"
        THEN IF Get(result_data, "sar_recommended", FALSE)
             THEN << Evidence("structuring", "Structuring indicators found", "critical", tool_name) >>
             ELSE << >>
        ELSE IF tool_name = "check_regulatory_thresholds"
        THEN IF Get(result_data, "potential_structuring", FALSE)
             THEN << Evidence("regulatory", "Transaction below CTR threshold", "high", tool_name) >>
             ELSE << >>
        ELSE << >>

\* FraudDetectionAgent._extract_fraud_evidence
_extract_fraud_evidence(tool_result) ==
    LET result_data == Get(tool_result, "result", << >>)
        tool_name == tool_result.tool
        fis == Get(result_data, "fraud_indicators", << >>)
        ris == Get(result_data, "risk_indicators", << >>)
        ans == Get(result_data, "anomalies_detected", << >>)
        likely == Get(result_data, "fraud_likelihood", "none")
    IN  IF ~Get(tool_result, "success", FALSE) THEN << >>
        ELSE [i \in 1..Len(fis) |->
                 Evidence("fraud_indicator", fis[i],
                          IF likely = "high" THEN "high" ELSE "medium", tool_name)]
             \o [i \in 1..Len(ris) |-> Evidence("risk_indicator", ris[i], "medium", tool_name)]
             \o [i \in 1..Len(ans) |-> Evidence("behavioral_anomaly", ans[i], "high", tool_name)]

\* The "for result in tool_results" loop that records executions and evidence.
\* acc holds the accumulators; the loop stops at the first result whose
\* ToolExecution cannot be built, keeping what was appended before it.
RECURSIVE RecordResults(_, _, _)
RecordResults(ag, tool_results, acc) ==
    IF tool_results = << >>
    THEN [raised |-> FALSE, error |-> "", acc |-> acc]
    ELSE LET res == Head(tool_results)
             te == ToolExecution(res)
             ev == IF ag = "react" THEN _extract_evidence(res) ELSE _extract_fraud_evidence(res)
             fi == IF ag = "fraud" /\ res.success
                      /\ "fraud_indicators" \in DOMAIN Get(res, "result", << >>)
                   THEN res.result.fraud_indicators ELSE << >>
         IN  IF te.raised
             THEN [raised |-> TRUE, error |-> te.error, acc |-> acc]
             ELSE RecordResults(ag, Tail(tool_results),
                      [executions |-> Append(acc.executions, te.value),
                       evidence |-> acc.evidence \o ev,
                       indicators |-> acc.indicators \o fi])

\* The lines appended to context after the results of an iteration were
\* recorded: every result for the ReACT investigator, the successful ones
\* for the fraud agent.
ContextLines(ag, it, tool_results) ==
    LET line(res) == IF ag = "react" \/ res.success
                     THEN << [iteration |-> it, tool |-> res.tool, success |-> res.success] >>
                     ELSE << >>
    IN  FlatMap(line, tool_results)

\* A termination check that looks for "SAR" in the reply as it is written.
FinalMarkerAsWritten(ag, text) ==
    IF ag = "react"
    THEN Contains(text.prose, "FINAL RECOMMENDATION") \/ Contains(text.prose, "SAR")
    ELSE Contains(text.prose, "FINAL DECISION") \/ Contains(Upper(text.prose), "CONFIRMED")

\* The termination check made for a reply without tool results.
FinalMarker(ag, text) ==
    IF ag = "react"
    THEN Contains(text.prose, "FINAL RECOMMENDATION") \/ Contains(Upper(text.prose), "SAR")
    ELSE Contains(text.prose, "FINAL DECISION") \/ Contains(Upper(text.prose), "CONFIRMED")

\* --------------------------------------------------- compiling the result
Take(s, n) == SubSeq(s, 1, Min(n, Len(s)))

Descriptions(evidence) == [i \in 1..Len(evidence) |-> evidence[i].description]

ScoreTools == {"calculate_risk_score", "assess_customer_risk"}

\* A score taken from the last scoring execution instead of the first.
calculate_final_risk_score_last(evidence, tool_executions) ==
    LET scored == SelectIdx(tool_executions, LAMBDA e : e.tool_name \in ScoreTools)
        last == tool_executions[CHOOSE i \in scored : \A j \in scored : i >= j]
        base_score == 500
            + 200 * CountSeq(evidence, LAMBDA e : e.severity = "critical")
            + 100 * CountSeq(evidence, LAMBDA e : e.severity = "high")
            + 50 * CountSeq(evidence, LAMBDA e : e.severity = "medium")
    IN  IF scored # {}
        THEN IF last.tool_name = "calculate_risk_score"
             THEN Get(last.result, "final_risk_score", 500)
             ELSE Get(last.result, "adjusted_risk_score", 500)
        ELSE Min(base_score, 1000)

\* ReACTInvestigator._calculate_final_risk_score
_calculate_final_risk_score(evidence, tool_executions) ==
    LET scored == SelectIdx(tool_executions, LAMBDA e : e.tool_name \in ScoreTools)
        first == tool_executions[CHOOSE i \in scored : \A j \in scored : i <= j]
        base_score == 500
            + 200 * CountSeq(evidence, LAMBDA e : e.severity = "critical")
            + 100 * CountSeq(evidence, LAMBDA e : e.severity = "high")
            + 50 * CountSeq(evidence, LAMBDA e : e.severity = "medium")
    IN  IF scored # {}
        THEN IF first.tool_name = "calculate_risk_score"
             THEN Get(first.result, "final_risk_score", 500)
             ELSE Get(first.result, "adjusted_risk_score", 500)
        ELSE Min(base_score, 1000)

\* ReACTInvestigator._extract_key_findings
_extract_key_findings(evidence) ==
    Take(Descriptions(SelectSeq(evidence, LAMBDA e : e.severity \in {"high", "critical"})), 5)

\* A recommendation that calls for an immediate SAR on the score alone.
generate_recommendation_by_score(risk_score, sar_required, evidence) ==
    IF sar_required
    THEN IF risk_score >= 900
         THEN "FILE SAR IMMEDIATELY - Critical evidence detected"
         ELSE "FILE SAR - Suspicious activity confirmed with substantial evidence"
    ELSE IF risk_score >= 600
    THEN "ENHANCED MONITORING - Elevated risk requires increased scrutiny"
    ELSE IF risk_score >= 400
    THEN "CONTINUED MONITORING - Maintain standard monitoring procedures"
    ELSE "STANDARD MONITORING - No immediate concerns identified"

\* ReACTInvestigator._generate_recommendation
_generate_recommendation(risk_score, sar_required, evidence) ==
    IF sar_required
    THEN IF CountSeq(evidence, LAMBDA e : e.severity = "critical") > 0
         THEN "FILE SAR IMMEDIATELY - Critical evidence detected"
         ELSE "FILE SAR - Suspicious activity confirmed with substantial evidence"
    ELSE IF risk_score >= 600
    THEN "ENHANCED MONITORING - Elevated risk requires increased scrutiny"
    ELSE IF risk_score >= 400
    THEN "CONTINUED MONITORING - Maintain standard monitoring procedures"
    ELSE "STANDARD MONITORING - No immediate concerns identified"

\* ReACTInvestigator._generate_sar_reasoning
_generate_sar_reasoning(sar_required, evidence) ==
    IF ~sar_required THEN None
    ELSE << "SAR filing recommended based on:" >>
         \o Take(Descriptions(SelectSeq(evidence, LAMBDA e : e.severity \in {"critical", "high"})), 5)

\* Next steps without the fallback for an empty list.
determine_next_steps_no_fallback(sar_required, risk_score, evidence) ==
    (IF sar_required
     THEN << "File Suspicious Activity Report (SAR) within required timeframe",
             "Document all evidence and investigation steps",
             "Notify compliance management" >>
     ELSE << >>)
    \o (IF risk_score >= 700
        THEN << "Enhanced Due Diligence (EDD) required",
                "Increase transaction monitoring frequency to daily" >>
        ELSE << >>)
    \o (IF \E i \in 1..Len(evidence) : evidence[i].evidence_type = "structuring"
        THEN << "Review historical transactions for similar patterns",
                "Check for related accounts or beneficiaries" >>
        ELSE << >>)

\* ReACTInvestigator._determine_next_steps
_determine_next_steps(sar_required, risk_score, evidence) ==
    LET s1 == IF sar_required
              THEN << "File Suspicious Activity Report (SAR) within required timeframe",
                      "Document all evidence and investigation steps",
                      "Notify compliance management" >>
              ELSE << >>
        s2 == IF risk_score >= 700
              THEN << "Enhanced Due Diligence (EDD) required",
                      "Increase transaction monitoring frequency to daily" >>
              ELSE << >>
        s3 == IF \E i \in 1..Len(evidence) : evidence[i].evidence_type = "structuring"
              THEN << "Review historical transactions for similar patterns",
                      "Check for related accounts or beneficiaries" >>
              ELSE << >>
        steps == s1 \o s2 \o s3
    IN  IF steps = << >>
        THEN << "Continue standard monitoring", "Review case in 30 days" >>
        ELSE steps

\* InvestigationResult(...): Field(ge=0, le=10) on final_risk_score makes the
\* constructor raise ValidationError for a score outside [0, 10].
InvestigationResult(fields) ==
    IF fields.final_risk_score < 0 \/ fields.final_risk_score > 1000
    THEN Raise("ValidationError: final_risk_score")
    ELSE Ok(fields)

\* ReACTInvestigator._compile_results with settings.sar_risk_threshold = threshold
compile_results_at(threshold, tool_executions, evidence, trace) ==
    LET risk_score == _calculate_final_risk_score(evidence, tool_executions)
        sar_required == risk_score >= threshold
                        \/ \E i \in 1..Len(evidence) : evidence[i].severity = "critical"
    IN  InvestigationResult(
            [status |-> "completed",
             iterations |-> Len(trace),
             tool_executions |-> tool_executions,
             evidence |-> evidence,
             key_findings |-> _extract_key_findings(evidence),
             final_risk_score |-> risk_score,
             risk_factors |->
                 Descriptions(SelectSeq(evidence, LAMBDA e : e.evidence_type = "risk_factor")),
             recommendation |-> _generate_recommendation(risk_score, sar_required, evidence),
             sar_required |-> sar_required,
             sar_reasoning |-> IF sar_required
                               THEN _generate_sar_reasoning(sar_required, evidence) ELSE None,
             next_steps |-> _determine_next_steps(sar_required, risk_score, evidence),
             escalation_required |-> risk_score >= 900,
             reasoning_trace |-> trace])

\* _compile_results deciding sar_required from the score alone.
compile_results_score_only(tool_executions, evidence, trace) ==
    LET risk_score == _calculate_final_risk_score(evidence, tool_executions)
        sar_required == risk_score >= sar_risk_threshold
    IN  InvestigationResult(
            [status |-> "completed",
             iterations |-> Len(trace),
             tool_executions |-> tool_executions,
             evidence |-> evidence,
             key_findings |-> _extract_key_findings(evidence),
             final_risk_score |-> risk_score,
             risk_factors |->
                 Descriptions(SelectSeq(evidence, LAMBDA e : e.evidence_type = "risk_factor")),
             recommendation |-> _generate_recommendation(risk_score, sar_required, evidence),
             sar_required |-> sar_required,
             sar_reasoning |-> IF sar_required
                               THEN _generate_sar_reasoning(sar_required, evidence) ELSE None,
             next_steps |-> _determine_next_steps(sar_required, risk_score, evidence),
             escalation_required |-> risk_score >= 900,
             reasoning_trace |-> trace])

\* ReACTInvestigator._compile_results
_compile_results(tool_executions, evidence, trace) ==
    compile_results_at(sar_risk_threshold, tool_executions, evidence, trace)

\* FraudDetectionAgent._calculate_fraud_score
_calculate_fraud_score(evidence, tool_executions) ==
    LET scored == SelectIdx(tool_executions, LAMBDA e : e.tool_name = "assess_fraud_probability")
        first == tool_executions[CHOOSE i \in scored : \A j \in scored : i <= j]
        score == 300 * CountSeq(evidence, LAMBDA e : e.severity = "critical")
                 + 200 * CountSeq(evidence, LAMBDA e : e.severity = "high")
                 + 100 * CountSeq(evidence, LAMBDA e : e.severity = "medium")
    IN  IF scored # {}
        THEN Get(first.result, "overall_risk_score", 500)
        ELSE Min(score, 1000)

\* The decision ladder with strict comparisons.
FraudDecisionStrict(fraud_score) ==
    IF fraud_score > 800
    THEN [decision |-> "CONFIRMED FRAUD",
          action |-> "Block account immediately and contact customer"]
    ELSE IF fraud_score > 600
    THEN [decision |-> "SUSPECTED FRAUD - High Probability",
          action |-> "Block transactions and initiate customer verification"]
    ELSE IF fraud_score > 400
    THEN [decision |-> "SUSPECTED FRAUD - Medium Probability",
          action |-> "Enhanced monitoring and step-up authentication"]
    ELSE IF fraud_score > 200
    THEN [decision |-> "NEEDS REVIEW",
          action |-> "Monitor closely for additional indicators"]
    ELSE [decision |-> "LEGITIMATE ACTIVITY",
          action |-> "No action required - continue normal monitoring"]

\* The decision ladder of _compile_fraud_results.
FraudDecision(fraud_score) ==
    IF fraud_score >= 800
    THEN [decision |-> "CONFIRMED FRAUD",
          action |-> "Block account immediately and contact customer"]
    ELSE IF fraud_score >= 600
    THEN [decision |-> "SUSPECTED FRAUD - High Probability",
          action |-> "Block transactions and initiate customer verification"]
    ELSE IF fraud_score >= 400
    THEN [decision |-> "SUSPECTED FRAUD - Medium Probability",
          action |-> "Enhanced monitoring and step-up authentication"]
    ELSE IF fraud_score >= 200
    THEN [decision |-> "NEEDS REVIEW",
          action |-> "Monitor closely for additional indicators"]
    ELSE [decision |-> "LEGITIMATE ACTIVITY",
          action |-> "No action required - continue normal monitoring"]

\* FraudDetectionAgent._compile_fraud_results
_compile_fraud_results(tool_executions, evidence, trace, indicators) ==
    LET fraud_score == _calculate_fraud_score(evidence, tool_executions)
        d == FraudDecision(fraud_score)
    IN  InvestigationResult(
            [status |-> "completed",
             iterations |-> Len(trace),
             tool_executions |-> tool_executions,
             evidence |-> evidence,
             key_findings |-> _extract_key_findings(evidence),
             final_risk_score |-> fraud_score,
             risk_factors |-> indicators,
             recommendation |-> d.decision,
             sar_required |-> fraud_score >= 700,
             sar_reasoning |-> IF fraud_score >= 700 THEN << "Fraud score", d.action >> ELSE None,
             next_steps |-> << d.action >>,
             escalation_required |-> fraud_score >= 800,
             reasoning_trace |-> trace])

\* ------------------------------------------------- investigate(): the loop
NoResult == [status |-> "none"]

ReplyEntry(it, text) == [iteration |-> it, kind |-> "reply", detail |-> text.prose]

ErrorEntry(it, error) == [iteration |-> it, kind |-> "ERROR", detail |-> error]

\* Leaving the body of the for statement normally.
NextIteration ==
    IF iteration = max_iterations
    THEN pc' = "compile" /\ iteration' = iteration
    ELSE pc' = "loop" /\ iteration' = iteration + 1

\* chat.completions.create raises: the except clause appends the ERROR entry
\* and breaks.
ProviderRaises ==
    /\ pc = "loop"
    /\ llm_calls' = llm_calls + 1
    /\ reasoning_trace' = Append(reasoning_trace, ErrorEntry(iteration, "provider error"))
    /\ pc' = "compile"
    /\ UNCHANGED <<agent, max_iterations, iteration, all_tool_executions, all_evidence,
                   fraud_indicators, context, llm_response, blocks_seen, result>>
    /\ UNCHANGED <<tx_vars, adv_vars, api_vars, conv_vars, dec_vars>>

\* The rest of the try block once the tool results were recorded (rec), or
\* the except clause if recording raised.
AfterTools(text, trace1, tool_results, rec) ==
    /\ all_tool_executions' = rec.acc.executions
    /\ all_evidence' = rec.acc.evidence
    /\ fraud_indicators' = rec.acc.indicators
    /\ IF rec.raised
       THEN /\ reasoning_trace' = Append(trace1, ErrorEntry(iteration, rec.error))
            /\ pc' = "compile"
            /\ UNCHANGED <<iteration, context>>
       ELSE /\ reasoning_trace' = trace1
            /\ context' = context \o ContextLines(agent, iteration, tool_results)
            /\ NextIteration

\* The try block from the parsing of the reply on; parsed is what
\* parse_and_execute returned or raised.
AfterReply(text, trace1, parsed) ==
    IF parsed.raised
    THEN /\ reasoning_trace' = Append(trace1, ErrorEntry(iteration, parsed.error))
         /\ pc' = "compile"
         /\ UNCHANGED <<iteration, all_tool_executions, all_evidence,
                        fraud_indicators, context>>
    ELSE IF parsed.value # << >>
    THEN AfterTools(text, trace1, parsed.value,
                    RecordResults(agent, parsed.value,
                        [executions |-> all_tool_executions, evidence |-> all_evidence,
                         indicators |-> fraud_indicators]))
    ELSE /\ reasoning_trace' = trace1
         /\ UNCHANGED <<all_tool_executions, all_evidence, fraud_indicators, context>>
         /\ IF FinalMarker(agent, text)
            THEN pc' = "compile" /\ iteration' = iteration
            ELSE NextIteration

\* One pass through the try block with the reply text: append the reply to
\* the trace, run the tools, record executions and evidence, extend context
\* or test the termination markers; any exception on the way goes to the
\* except clause.
Iterate(text) ==
    /\ pc = "loop"
    /\ llm_calls' = llm_calls + 1
    /\ llm_response' = text
    /\ blocks_seen' = blocks_seen + Len(text.blocks)
    /\ UNCHANGED <<agent, max_iterations, result, tx_vars, adv_vars, api_vars, conv_vars, dec_vars>>
    /\ AfterReply(text, Append(reasoning_trace, ReplyEntry(iteration, text)),
                  IF agent = "react" THEN parse_and_execute(text)
                  ELSE _parse_and_execute_tools(text))

LLMReplies ==
    /\ pc = "loop"
    /\ \E text \in Replies(agent, MaxCalls - blocks_seen) : Iterate(text)

\* return the compiled result, or let out what its constructor raised.
Return(r) ==
    IF r.raised
    THEN pc' = "raised" /\ result' = NoResult
    ELSE pc' = "returned" /\ result' = r.value

\* After the loop: compile and return the result, or raise what the
\* InvestigationResult constructor raised.
Compile ==
    /\ pc = "compile"
    /\ Return(IF agent = "react"
              THEN _compile_results(all_tool_executions, all_evidence, reasoning_trace)
              ELSE _compile_fraud_results(all_tool_executions, all_evidence, reasoning_trace,
                                          fraud_indicators))
    /\ UNCHANGED <<agent, max_iterations, iteration, reasoning_trace, all_tool_executions,
                   all_evidence, fraud_indicators, context, llm_response, llm_calls,
                   blocks_seen>>
    /\ UNCHANGED <<tx_vars, adv_vars, api_vars, conv_vars, dec_vars>>

InvIdle ==
    /\ agent = "react"
    /\ max_iterations = 1
    /\ pc = "idle"
    /\ iteration = 1
    /\ reasoning_trace = << >>
    /\ all_tool_executions = << >>
    /\ all_evidence = << >>
    /\ fraud_indicators = << >>
    /\ context = << >>
    /\ llm_response = NoReply
    /\ llm_calls = 0
    /\ blocks_seen = 0
    /\ result = NoResult

\* ------------------------------------------------ tool executor on its own
TxIdle ==
    /\ tx_text = NoReply
    /\ tx_call = [tool |-> "", parameters |-> NotMapping]
    /\ tx_out = [op |-> "none"]

\* executor.parse_and_execute(text) / agent._parse_and_execute_tools(text)
ParseAndExecute ==
    /\ tx_out.op = "none"
    /\ \E ag \in {"react", "fraud"} : \E b \in BlockSeqs(ag, MaxCalls) :
        LET text == [blocks |-> b, prose |-> "thinking"]
        IN  /\ tx_text' = text
            /\ tx_out' = [op |-> "parse_and_execute", agent |-> ag,
                          out |-> IF ag = "react" THEN parse_and_execute(text)
                                  ELSE _parse_and_execute_tools(text)]
            /\ UNCHANGED <<tx_call, inv_vars, adv_vars, api_vars, conv_vars, dec_vars>>

\* executor.execute(tool_name, parameters) / agent._execute_tool(tool_name, parameters)
Execute ==
    /\ tx_out.op = "none"
    /\ \E ag \in {"react", "fraud"} : \E c \in (IF ag = "react" THEN ReactCalls ELSE FraudCalls) :
        /\ tx_call' = [tool |-> c.tool, parameters |-> c.parameters]
        /\ tx_out' = [op |-> "execute", agent |-> ag,
                      out |-> IF ag = "react" THEN execute(c.tool, c.parameters)
                              ELSE _execute_tool(c.tool, c.parameters)]
        /\ UNCHANGED <<tx_text, inv_vars, adv_vars, api_vars, conv_vars, dec_vars>>

\* ---------------------------------------------------------------- advisor
max_retries == 3          \* @retry_with_backoff(max_retries=3, ...) on call_llm
RETRY_DELAY == 10         \* Config.RETRY_DELAY, in tenths of a second
RETRY_BACKOFF == 2        \* Config.RETRY_BACKOFF
cost_per_1k_input == 150  \* gpt-4o-mini, in millionths of a dollar
cost_per_1k_output == 600

\* The exception classes that matter, each with its base classes.
Mro(exc) ==
    CASE exc = "OpenAIError" -> {"OpenAIError", "Exception"}
      [] exc = "AnthropicError" -> {"AnthropicError", "Exception"}
      [] exc = "ConnectionError" -> {"ConnectionError", "OSError", "Exception"}
      [] exc = "AdviceGenerationError" -> {"AdviceGenerationError", "Exception"}
      [] OTHER -> {exc, "Exception"}

IsInstance(exc, classes) == Mro(exc) \cap classes # {}

\* exceptions=(OpenAIError, AnthropicError, ConnectionError) on call_llm
retry_exceptions == {"OpenAIError", "AnthropicError", "ConnectionError"}

ProviderErrors == {"OpenAIError", "AnthropicError"}

\* What one invocation of the provider client does; token counts in thousands.
ProviderOutcomes ==
    {[kind |-> "ok", text |-> t, input_tokens |-> i, output_tokens |-> 1] :
        t \in {"advice", "null"}, i \in {1, 2}}
    \cup {[kind |-> "raise", exc |-> e] : e \in {"OpenAIError", "ConnectionError", "IndexError"}}

\* Config.estimate_cost
estimate_cost(input_tokens, output_tokens) ==
    input_tokens * cost_per_1k_input + output_tokens * cost_per_1k_output

\* The body of call_llm (inside @timeit and @log_errors, which re-raise):
\* both except clauses turn what the provider raised into AdviceGenerationError.
call_llm(outcome) ==
    IF outcome.kind = "ok"
    THEN Ok([text |-> outcome.text,
             usage |-> [input_tokens |-> outcome.input_tokens,
                        output_tokens |-> outcome.output_tokens,
                        total_tokens |-> outcome.input_tokens + outcome.output_tokens]])
    ELSE IF IsInstance(outcome.exc, ProviderErrors)
    THEN Raise("AdviceGenerationError")
    ELSE Raise("AdviceGenerationError")

\* retry_with_backoff's wrapper, on an exception of func at the given attempt:
\* "retry" (sleep and loop) or "raise".
retry_with_backoff(exc, att, retries, exceptions) ==
    IF ~IsInstance(exc, exceptions) THEN "raise"
    ELSE IF att = retries THEN "raise"
    ELSE "retry"

RECURSIVE Pow(_, _)
Pow(b, k) == IF k = 0 THEN 1 ELSE b * Pow(b, k - 1)

\* The delay slept before the retry that follows the given attempt.
Delay(att) == RETRY_DELAY * Pow(RETRY_BACKOFF, att)

\* An except clause that swallows the failure and hands back a response.
provide_advice_swallow(exc) ==
    [kind |-> "returned",
     advice |-> [summary |-> "", tokens_used |-> 0, estimated_cost |-> 0]]

\* The except clause of provide_advice: log, then re-raise.
provide_advice_except(exc) == [kind |-> "raised", exc |-> exc]

\* parse_response_to_advice: raw_response.split fails on a null content.
parse_response_to_advice(raw_response, usage) ==
    IF raw_response = "null"
    THEN Raise("AttributeError")
    ELSE Ok([summary |-> raw_response,
             tokens_used |-> usage.total_tokens,
             estimated_cost |-> estimate_cost(usage.input_tokens, usage.output_tokens)])

NoReturn == [text |-> "", usage |-> << >>]

NoOutcome == [kind |-> "none"]

NoMetrics == [total_requests |-> -1]

\* Metrics whose averages start with the second request.
get_metrics_after_first(requests, tokens, cost) ==
    [total_requests |-> requests,
     total_tokens |-> tokens,
     total_cost |-> cost,
     avg_tokens_per_request |-> IF requests > 1 THEN (100 * tokens) \div requests ELSE 0,
     avg_cost_per_request |-> IF requests > 1 THEN (100 * cost) \div requests ELSE 0]

\* get_metrics: the totals, and the averages per request, which are 0
\* without a request; the averages are counted in hundredths.
get_metrics(requests, tokens, cost) ==
    [total_requests |-> requests,
     total_tokens |-> tokens,
     total_cost |-> cost,
     avg_tokens_per_request |-> IF requests > 0 THEN (100 * tokens) \div requests ELSE 0,
     avg_cost_per_request |-> IF requests > 0 THEN (100 * cost) \div requests ELSE 0]

AdvIdle ==
    /\ adv_pc = "idle"
    /\ adv_steps = << >>
    /\ attempt = 0
    /\ provider_calls = 0
    /\ provider_errors = 0
    /\ slept = << >>
    /\ total_requests = 0
    /\ total_tokens = 0
    /\ total_cost = 0
    /\ adv_outcome = NoOutcome
    /\ adv_calls = 0
    /\ llm_return = NoReturn
    /\ metrics = NoMetrics

\* provide_advice(scenario) up to the call of call_llm: @validate_inputs
\* rejects a scenario that is not a FinancialScenario, then the two prompts
\* are built.
ProvideAdvice ==
    \E valid \in BOOLEAN :
        /\ adv_pc = "idle"
        /\ adv_calls < MaxAdvice
        /\ adv_calls' = adv_calls + 1
        /\ attempt' = 0
        /\ provider_calls' = 0
        /\ provider_errors' = 0
        /\ slept' = << >>
        /\ llm_return' = NoReturn
        /\ IF valid
           THEN /\ adv_steps' = << "get_system_prompt", "generate_user_prompt", "call_llm" >>
                /\ adv_pc' = "call_llm"
                /\ adv_outcome' = NoOutcome
           ELSE /\ adv_steps' = << >>
                /\ adv_pc' = "idle"
                /\ adv_outcome' = [kind |-> "raised", exc |-> "ValueError"]
        /\ UNCHANGED <<total_requests, total_tokens, total_cost, metrics, inv_vars, tx_vars, api_vars, conv_vars, dec_vars>>

\* One pass of the wrapper's "for attempt in range(max_retries + 1)": invoke
\* call_llm once, return its value, or sleep and loop, or let the exception
\* out through provide_advice.
Attempt ==
    \E outcome \in ProviderOutcomes :
        LET r == call_llm(outcome)
        IN  /\ adv_pc = "call_llm"
            /\ total_requests' = total_requests + 1
            /\ provider_calls' = provider_calls + 1
            /\ provider_errors' = provider_errors
                    + (IF outcome.kind = "raise" /\ IsInstance(outcome.exc, ProviderErrors)
                       THEN 1 ELSE 0)
            /\ IF ~r.raised
               THEN /\ total_tokens' = total_tokens + r.value.usage.total_tokens
                    /\ total_cost' = total_cost + estimate_cost(r.value.usage.input_tokens,
                                                                r.value.usage.output_tokens)
                    /\ llm_return' = r.value
                    /\ adv_pc' = "parse"
                    /\ UNCHANGED <<attempt, slept, adv_outcome>>
               ELSE /\ UNCHANGED <<total_tokens, total_cost, llm_return>>
                    /\ IF retry_with_backoff(r.error, attempt, max_retries, retry_exceptions) = "retry"
                       THEN /\ slept' = Append(slept, Delay(attempt))
                            /\ attempt' = attempt + 1
                            /\ UNCHANGED <<adv_pc, adv_outcome>>
                       ELSE /\ adv_pc' = "idle"
                            /\ adv_outcome' = provide_advice_except(r.error)
                            /\ UNCHANGED <<attempt, slept>>
            /\ UNCHANGED <<adv_steps, adv_calls, metrics, inv_vars, tx_vars, api_vars, conv_vars, dec_vars>>

\* provide_advice after call_llm returned: parse and return the response.
ParseResponse ==
    LET r == parse_response_to_advice(llm_return.text, llm_return.usage)
    IN  /\ adv_pc = "parse"
        /\ adv_steps' = Append(adv_steps, "parse_response_to_advice")
        /\ adv_pc' = "idle"
        /\ adv_outcome' = IF r.raised THEN provide_advice_except(r.error)
                          ELSE [kind |-> "returned", advice |-> r.value]
        /\ UNCHANGED <<attempt, provider_calls, provider_errors, slept, total_requests,
                       total_tokens, total_cost, adv_calls, llm_return, metrics, inv_vars, tx_vars, api_vars, conv_vars, dec_vars>>

\* advisor.get_metrics() between two provide_advice calls.
GetMetrics ==
    /\ adv_pc = "idle"
    /\ metrics' = get_metrics(total_requests, total_tokens, total_cost)
    /\ metrics' # metrics
    /\ UNCHANGED <<adv_pc, adv_steps, attempt, provider_calls, provider_errors, slept,
                   total_requests, total_tokens, total_cost, adv_outcome, adv_calls,
                   llm_return, inv_vars, tx_vars, api_vars, conv_vars, dec_vars>>

\* ---------------------------------------------------------------- AML API
MaxPosts == 2

\* An Optional query parameter: absent (None) or given.
Absent == [given |-> FALSE]

Given(v) == [given |-> TRUE, v |-> v]

\* The run of ReACTInvestigator().investigate(case) inside a request: the
\* first reply is text, its tool results are recorded, and the second reply
\* (or the except clause, if recording raised) ends the loop.
ApiTrace(text, rec) ==
    << ReplyEntry(1, text) >>
    \o (IF rec.raised THEN << ErrorEntry(1, rec.error) >>
        ELSE << [iteration |-> 2, kind |-> "reply", detail |-> "FINAL RECOMMENDATION: monitor"] >>)

ApiCompile(text, rec) ==
    _compile_results(rec.acc.executions, rec.acc.evidence, ApiTrace(text, rec))

investigate(text) ==
    ApiCompile(text,
               RecordResults("react", parse_and_execute(text).value,
                             [executions |-> << >>, evidence |-> << >>, indicators |-> << >>]))

\* First replies the provider may give to an investigation started by a POST.
ApiReplies ==
    {[blocks |-> b, prose |-> "thinking"] :
        b \in { << >>,
                << Call("assess_structuring_risk",
                        Mapping([transactions |-> << [amount |-> 9800, date |-> "2025-01-01"],
                                                     [amount |-> 9750, date |-> "2025-01-02"] >>])) >>,
                << Call("calculate_risk_score",
                        Mapping([customer_profile |-> [risk_score |-> 350],
                                 transaction_history |-> << >>])) >>,
                << Call("calculate_risk_score",
                        Mapping([customer_profile |-> [risk_score |-> 780, previous_sars |-> 1],
                                 transaction_history |-> [cash_deposit_count |-> 5]])) >>,
                << Call("calculate_risk_score",
                        Mapping([customer_profile |-> [risk_score |-> -300],
                                 transaction_history |-> << >>])) >> }}

\* The ids under which the store is keyed.
StoredIds(store) == {store[i].investigation_id : i \in 1..Len(store)}

\* A store that keeps its newest result in one slot.
SetItemOverwrite(store, key, value) ==
    IF store = << >> THEN << value >> ELSE [store EXCEPT ![Len(store)] = value]

\* investigations[key] = value: a new key goes last, an existing key keeps
\* its place.
SetItem(store, key, value) ==
    IF key \in StoredIds(store)
    THEN [i \in 1..Len(store) |-> IF store[i].investigation_id = key THEN value ELSE store[i]]
    ELSE Append(store, value)

\* investigations[key]
GetItem(store, key) == store[CHOOSE i \in 1..Len(store) : store[i].investigation_id = key]

\* A deletion that drops the oldest entry whatever the key.
DelOldest(store, key) == Tail(store)

\* del investigations[key]
DelItem(store, key) == SelectSeq(store, LAMBDA r : r.investigation_id # key)

\* What start_investigation does with the result of investigate: store and
\* return it with 201, or answer 500 with the exception text.
start_investigation(store, case_id, investigation_id, completed_at, duration, r) ==
    IF r.raised
    THEN [store |-> store, status |-> 500, body |-> << "Investigation failed:", r.error >>]
    ELSE [store |-> SetItem(store, investigation_id,
                            r.value @@ [case_id |-> case_id,
                                        investigation_id |-> investigation_id,
                                        completed_at |-> completed_at,
                                        investigation_duration_seconds |-> duration]),
          status |-> 201,
          body |-> r.value @@ [case_id |-> case_id,
                               investigation_id |-> investigation_id,
                               completed_at |-> completed_at,
                               investigation_duration_seconds |-> duration]]

\* get_investigation
get_investigation(store, investigation_id) ==
    IF investigation_id \notin StoredIds(store)
    THEN [store |-> store, status |-> 404, body |-> << "not found", investigation_id >>]
    ELSE [store |-> store, status |-> 200, body |-> GetItem(store, investigation_id)]

\* delete_investigation
delete_investigation(store, investigation_id) ==
    IF investigation_id \notin StoredIds(store)
    THEN [store |-> store, status |-> 404, body |-> << "not found", investigation_id >>]
    ELSE [store |-> DelItem(store, investigation_id), status |-> 200,
          body |-> << "deleted", investigation_id >>]

\* results.sort(key=completed_at, reverse=True): a stable sort, so results
\* with equal completion times keep their order.
InsertDesc(sorted, x) ==
    LET k == Cardinality({i \in 1..Len(sorted) : sorted[i].completed_at >= x.completed_at})
    IN  SubSeq(sorted, 1, k) \o << x >> \o SubSeq(sorted, k + 1, Len(sorted))

RECURSIVE SortDesc(_)
SortDesc(s) ==
    IF s = << >> THEN << >>
    ELSE InsertDesc(SortDesc(SubSeq(s, 1, Len(s) - 1)), s[Len(s)])

\* A slice bound as Python clamps it: negative bounds count from the end.
Clamp(i, n) == IF i < 0 THEN (IF i + n < 0 THEN 0 ELSE i + n) ELSE Min(i, n)

\* s[a:b]
Slice(s, a, b) == SubSeq(s, Clamp(a, Len(s)) + 1, Clamp(b, Len(s)))

\* The two filters of list_investigations.
Filtered(store, sar_required, min_risk_score) ==
    SelectSeq(store, LAMBDA r :
        /\ sar_required.given => r.sar_required = sar_required.v
        /\ min_risk_score.given => r.final_risk_score >= min_risk_score.v)

Page(results, limit, offset) ==
    [total |-> Len(results), limit |-> limit, offset |-> offset,
     investigations |-> Slice(results, offset, offset + limit)]

\* list_investigations
list_investigations(store, limit, offset, sar_required, min_risk_score) ==
    Page(SortDesc(Filtered(store, sar_required, min_risk_score)), limit, offset)

\* round(a / b, 2) on values held in hundredths
RoundDiv(a, b) == (2 * a + b) \div (2 * b)

\* _group_by_alert_type
_group_by_alert_type(results) == [unknown |-> Len(results)]

\* _group_by_risk_level
_group_by_risk_level(results) ==
    [low |-> CountSeq(results, LAMBDA r : r.final_risk_score < 400),
     medium |-> CountSeq(results, LAMBDA r : r.final_risk_score >= 400 /\ r.final_risk_score < 600),
     high |-> CountSeq(results, LAMBDA r : r.final_risk_score >= 600 /\ r.final_risk_score < 800),
     critical |-> CountSeq(results, LAMBDA r : r.final_risk_score >= 800)]

\* get_stats
get_stats(results) ==
    IF results = << >>
    THEN [total_investigations |-> 0, sar_filed |-> 0, sar_rate |-> 0,
          avg_risk_score |-> 0, avg_duration_seconds |-> 0]
    ELSE [total_investigations |-> Len(results),
          sar_filed |-> CountSeq(results, LAMBDA r : r.sar_required),
          sar_rate |-> RoundDiv(CountSeq(results, LAMBDA r : r.sar_required) * 10000,
                                Len(results)),
          avg_risk_score |->
              RoundDiv(SumSeq([i \in 1..Len(results) |-> results[i].final_risk_score]),
                       Len(results)),
          avg_duration_seconds |->
              RoundDiv(SumSeq([i \in 1..Len(results) |->
                                  results[i].investigation_duration_seconds]),
                       Len(results)),
          by_alert_type |-> _group_by_alert_type(results),
          by_risk_level |-> _group_by_risk_level(results)]

\* Each handler is a coroutine without an await in it, so the event loop
\* runs a request to its response before it starts the next one: concurrent
\* requests are served in some order, one action each.
NoResponse == [op |-> "none"]

ApiIdle ==
    /\ investigations = << >>
    /\ api_now = 0
    /\ api_uuid = 0
    /\ api_pc = "idle"
    /\ api_resp = NoResponse
    /\ api_live = {}
    /\ api_gone = {}
    /\ api_cases = << >>

\* The handler's effect on the store and the response sent.
Respond(op, args, out) ==
    /\ investigations' = out.store
    /\ api_resp' = [op |-> op, args |-> args, status |-> out.status, body |-> out.body,
                    before |-> investigations]
    /\ api_pc' = "responded"

\* POST {prefix}/investigations
PostInvestigation ==
    /\ api_pc = "idle"
    /\ api_uuid < MaxPosts
    /\ \E text \in ApiReplies, took \in {0, 1} :
          \E out \in {start_investigation(investigations,
                                          << "CASE", Len(investigations) + 1 >>,
                                          << "INV", api_uuid + 1 >>,
                                          api_now + took, took * 100, investigate(text))} :
              /\ Respond("post", << "INV", api_uuid + 1 >>, out)
              /\ api_live' = IF out.status = 201 THEN api_live \cup {out.body} ELSE api_live
              /\ api_now' = api_now + took
              /\ api_cases' = IF out.status = 201
                               THEN Append(api_cases, out.body.case_id) ELSE api_cases
    /\ api_uuid' = api_uuid + 1
    /\ UNCHANGED <<api_gone, inv_vars, tx_vars, adv_vars, conv_vars, dec_vars>>

\* Ids a client may ask for: issued ones and ones never issued.
RequestIds == {<< "INV", k >> : k \in 1..(MaxPosts + 1)}

\* GET {prefix}/investigations/{investigation_id}
GetInvestigation ==
    /\ api_pc = "idle"
    /\ \E id \in RequestIds : Respond("get", id, get_investigation(investigations, id))
    /\ UNCHANGED <<api_now, api_uuid, api_live, api_gone, api_cases, inv_vars, tx_vars, adv_vars, conv_vars, dec_vars>>

\* DELETE {prefix}/investigations/{investigation_id}
DeleteInvestigation ==
    /\ api_pc = "idle"
    /\ \E id \in RequestIds :
          \E out \in {delete_investigation(investigations, id)} :
              /\ Respond("delete", id, out)
              /\ api_live' = IF out.status = 200
                             THEN {r \in api_live : r.investigation_id # id} ELSE api_live
              /\ api_gone' = IF out.status = 200 THEN api_gone \cup {id} ELSE api_gone
    /\ UNCHANGED <<api_now, api_uuid, api_cases, inv_vars, tx_vars, adv_vars, conv_vars, dec_vars>>

Limits == {-1, 1, 2}

Offsets == {-1, 0, 1}

SarFilters == {Absent, Given(TRUE), Given(FALSE)}

ScoreFilters == {Absent, Given(600)}

\* GET {prefix}/investigations
ListInvestigations ==
    /\ api_pc = "idle"
    /\ \E limit \in Limits, offset \in Offsets, sar \in SarFilters, score \in ScoreFilters :
          Respond("list",
                  [limit |-> limit, offset |-> offset, sar_required |-> sar,
                   min_risk_score |-> score],
                  [store |-> investigations, status |-> 200,
                   body |-> list_investigations(investigations, limit, offset, sar, score)])
    /\ UNCHANGED <<api_now, api_uuid, api_live, api_gone, api_cases, inv_vars, tx_vars, adv_vars, conv_vars, dec_vars>>

\* GET {prefix}/stats
GetStats ==
    /\ api_pc = "idle"
    /\ Respond("stats", << >>,
               [store |-> investigations, status |-> 200, body |-> get_stats(investigations)])
    /\ UNCHANGED <<api_now, api_uuid, api_live, api_gone, api_cases, inv_vars, tx_vars, adv_vars, conv_vars, dec_vars>>

\* The response reaches the client; the server is ready for the next request.
ResponseSent ==
    /\ api_pc = "responded"
    /\ api_pc' = "idle"
    /\ api_resp' = NoResponse
    /\ UNCHANGED <<investigations, api_now, api_uuid, api_live, api_gone, api_cases,
                   inv_vars, tx_vars, adv_vars, conv_vars, dec_vars>>

\* ----------------------------------------------------------- Conversation
MaxTurns == 3

\* A turn put in front of the earlier ones.
add_turn_first(conv, user_message, advisor_response, created, now) ==
    [conv EXCEPT !.turns = << [turn_id |-> Len(conv.turns) + 1,
                               timestamp |-> created,
                               user_message |-> user_message,
                               advisor_response |-> advisor_response] >> \o conv.turns,
                 !.updated_at = now]

\* Conversation.add_turn: the turn is created at time created (its timestamp
\* default), updated_at is read from the clock afterwards, at time now.
add_turn(conv, user_message, advisor_response, created, now) ==
    [conv EXCEPT !.turns = Append(conv.turns,
                               [turn_id |-> Len(conv.turns) + 1,
                                timestamp |-> created,
                                user_message |-> user_message,
                                advisor_response |-> advisor_response]),
                 !.updated_at = now]

\* Conversation(conversation_id=..., persona=...): both timestamps default to
\* utcnow(), no turns.
ConvIdle ==
    /\ utcnow = 0
    /\ conversation = [started_at |-> 0, updated_at |-> 0, turns |-> << >>]
    /\ add_turn_calls = 0

\* conversation.add_turn(user_message, advisor_response), some time later.
AddTurn ==
    /\ add_turn_calls < MaxTurns
    /\ \E user_message \in {"how much should I save?", "and for retirement?"},
          advisor_response \in {"advice A", "advice B"}, passed \in {0, 1}, took \in {0, 1} :
          /\ utcnow' = utcnow + passed + took
          /\ conversation' = add_turn(conversation, user_message, advisor_response,
                                      utcnow + passed, utcnow + passed + took)
    /\ add_turn_calls' = add_turn_calls + 1
    /\ UNCHANGED <<inv_vars, tx_vars, adv_vars, api_vars, dec_vars>>

\* ------------------------------------------------------------- decorators
MAX_RETRIES == 3   \* Config.MAX_RETRIES

DecIdle ==
    /\ retry = [pc |-> "idle"]
    /\ cache = [pc |-> "idle"]

\* x or default: None and 0 are both falsy.
OrDefault(x, default) == IF x.given /\ x.v # 0 THEN x.v ELSE default

\* retry_with_backoff(max_retries, initial_delay, backoff_factor, exceptions):
\* the three values the wrapper works with; delays are in tenths of a second.
Decorate(args) ==
    [max_retries |-> OrDefault(args.max_retries, MAX_RETRIES),
     initial_delay |-> OrDefault(args.initial_delay, RETRY_DELAY),
     backoff_factor |-> OrDefault(args.backoff_factor, RETRY_BACKOFF),
     exceptions |-> args.exceptions]

\* Arguments given to the decorator; Absent is an argument left out.
RetryArgs ==
    {[max_retries |-> n, initial_delay |-> d, backoff_factor |-> b, exceptions |-> e] :
        n \in {Absent, Given(0), Given(1), Given(2)},
        d \in {Absent, Given(0), Given(5)},
        b \in {Absent, Given(0), Given(3)},
        e \in {{"Exception"}, {"ConnectionError"}, {"OSError"}}}

\* What one invocation of the wrapped function does.
FuncOutcomes ==
    {[kind |-> "ok", value |-> "value"],
     [kind |-> "raise", exc |-> "ConnectionError"],
     [kind |-> "raise", exc |-> "ValueError"]}

\* One pass of "for attempt in range(max_retries + 1)" in which func did o.
wrapper_pass(w, o) ==
    IF o.kind = "ok"
    THEN [w EXCEPT !.pc = "returned", !.outcomes = Append(@, o), !.out = Ok(o.value)]
    ELSE IF retry_with_backoff(o.exc, w.attempt, w.max_retries, w.exceptions) = "raise"
    THEN [w EXCEPT !.pc = "raised", !.outcomes = Append(@, o), !.out = Raise(o.exc)]
    ELSE [w EXCEPT !.outcomes = Append(@, o),
                   !.slept = Append(@, w.delay),
                   !.delay = w.delay * w.backoff_factor,
                   !.attempt = w.attempt + 1]

\* A function is decorated and its wrapper called.
RetryCall ==
    /\ retry.pc = "idle"
    /\ \E args \in RetryArgs :
          retry' = Decorate(args) @@
                   [pc |-> "running", args |-> args, attempt |-> 0,
                    delay |-> Decorate(args).initial_delay,
                    outcomes |-> << >>, slept |-> << >>, out |-> [raised |-> FALSE]]
    /\ UNCHANGED <<cache, inv_vars, tx_vars, adv_vars, api_vars, conv_vars>>

\* The wrapper invokes the function once more.
RetryInvoke ==
    /\ retry.pc = "running"
    /\ \E o \in FuncOutcomes : retry' = wrapper_pass(retry, o)
    /\ UNCHANGED <<cache, inv_vars, tx_vars, adv_vars, api_vars, conv_vars>>

\* cache_result
MaxCacheCalls == 3     \* calls of the cached function

\* Argument values: the int 1, the int 2 and the str "1".
Int1 == [type |-> "int", v |-> 1]

Int2 == [type |-> "int", v |-> 2]

Str1 == [type |-> "str", s |-> "1"]

\* repr(value), as str() of a tuple shows its elements
Repr(value) ==
    CASE value = Int1 -> "1"
      [] value = Int2 -> "2"
      [] value = Str1 -> "'1'"

\* Calls f(1), f("1"), f(a=1, b=2) and f(b=2, a=1); kwargs in call order.
Signatures ==
    {[args |-> << Int1 >>, kwargs |-> << >>],
     [args |-> << Str1 >>, kwargs |-> << >>],
     [args |-> << >>, kwargs |-> << << "a", Int1 >>, << "b", Int2 >> >>],
     [args |-> << >>, kwargs |-> << << "b", Int2 >>, << "a", Int1 >> >>]}

NameRank == [a |-> 1, b |-> 2]

\* sorted(kwargs.items()), for at most two keyword arguments
SortedItems(kwargs) ==
    IF Len(kwargs) = 2 /\ NameRank[kwargs[1][1]] > NameRank[kwargs[2][1]]
    THEN << kwargs[2], kwargs[1] >>
    ELSE kwargs

\* cache_key = str((args, sorted(kwargs.items())))
cache_key(sig) ==
    << [i \in 1..Len(sig.args) |-> Repr(sig.args[i])],
       [i \in 1..Len(sig.kwargs) |->
           << SortedItems(sig.kwargs)[i][1], Repr(SortedItems(sig.kwargs)[i][2]) >>] >>

\* The arguments as the function sees them: positional values and a mapping
\* of keyword names to values.
Bound(sig) ==
    [args |-> sig.args,
     kwargs |-> {sig.kwargs[i] : i \in 1..Len(sig.kwargs)}]

\* func(*args, **kwargs): the value computed by the n-th invocation.
func(sig, n) == [computed_for |-> Bound(sig), invocation |-> n]

\* An entry that is still valid at an age equal to ttl_seconds.
FreshInclusive(current_time, timestamp, ttl_seconds) ==
    current_time - timestamp <= ttl_seconds

\* current_time - timestamp < ttl_seconds
Fresh(current_time, timestamp, ttl_seconds) == current_time - timestamp < ttl_seconds

\* cache[cache_key] = (result, current_time)
CachePut(entries, key, value, current_time) ==
    [k \in DOMAIN entries \cup {key} |->
        IF k = key THEN [result |-> value, timestamp |-> current_time] ELSE entries[k]]

\* Clean old cache entries
Sweep(entries, current_time, ttl_seconds) ==
    [k \in {j \in DOMAIN entries : current_time - entries[j].timestamp < ttl_seconds}
        |-> entries[k]]

\* cache_result's wrapper called with sig at time current_time.
cache_wrapper(c, sig, current_time) ==
    LET key == cache_key(sig)
        value == func(sig, c.invocations + 1)
    IN  IF key \in DOMAIN c.entries
           /\ Fresh(current_time, c.entries[key].timestamp, c.ttl_seconds)
        THEN [c EXCEPT !.now = current_time, !.calls = @ + 1,
                       !.last = [sig |-> sig, at |-> current_time, invoked |-> 0,
                                 returned |-> c.entries[key].result,
                                 before |-> c.entries]]
        ELSE [c EXCEPT !.now = current_time, !.calls = @ + 1,
                       !.invocations = @ + 1,
                       !.entries = Sweep(CachePut(c.entries, key, value, current_time),
                                         current_time, c.ttl_seconds),
                       !.last = [sig |-> sig, at |-> current_time, invoked |-> 1,
                                 returned |-> value, before |-> c.entries]]

\* @cache_result(ttl_seconds=...) applied to a function: an empty cache.
CacheDecorate ==
    /\ cache.pc = "idle"
    /\ \E ttl_seconds \in {2, 3} :
          cache' = [pc |-> "ready", ttl_seconds |-> ttl_seconds, now |-> 0, calls |-> 0,
                    invocations |-> 0, entries |-> << >>, last |-> [invoked |-> -1]]
    /\ UNCHANGED <<retry, inv_vars, tx_vars, adv_vars, api_vars, conv_vars>>

\* A call of the cached function, some time after the previous one.
CacheCall ==
    /\ cache.pc = "ready"
    /\ cache.calls < MaxCacheCalls
    /\ \E sig \in Signatures, passed \in {0, 1, 2} :
          cache' = cache_wrapper(cache, sig, cache.now + passed)
    /\ UNCHANGED <<retry, inv_vars, tx_vars, adv_vars, api_vars, conv_vars>>

\* ------------------------------------------------- functions on their own
Amounts == {-100, 0, 3000, 8999, 9000, 9001, 9800, 9999, 10000, 10001, 50000}

TransactionTypes ==
    {"cash_deposit", "cash_withdrawal", "wire_transfer", "international_transfer", "check"}

\* Transactions handed to assess_structuring_risk.
Transactions ==
    {[amount |-> a, date |-> d] : a \in {500, 9000, 9001, 9800, 9999, 10000},
                                  d \in {"2025-01-01", "2025-01-02"}}
    \cup {[date |-> "2025-01-01"]}

\* The ToolExecution recorded for a call.
Executed(call) == ToolExecution(execute(call.tool, call.parameters).value).value

\* Executions an investigation can have recorded.
Executions ==
    { Executed(Call("calculate_risk_score",
                    Mapping([customer_profile |-> [risk_score |-> 650],
                             transaction_history |-> << >>]))),
      Executed(Call("calculate_risk_score",
                    Mapping([customer_profile |-> [risk_score |-> 780, previous_sars |-> 1],
                             transaction_history |-> [cash_deposit_count |-> 5]]))),
      Executed(Call("calculate_risk_score",
                    Mapping([customer_profile |-> [risk_score |-> 900]]))),
      Executed(Call("assess_customer_risk", Mapping([customer_id |-> "CUST_001"]))),
      Executed(Call("assess_customer_risk", Mapping([customer_id |-> "CUST_404"]))),
      Executed(Call("get_customer_profile", Mapping([customer_id |-> "CUST_003"]))) }

Severities == {"critical", "high", "medium", "low"}

EvidenceItems == {Evidence("transaction_pattern", "pattern", sev, "tool") : sev \in Severities}

SeqsUpTo(S, n) == UNION {[1..k -> S] : k \in 0..n}

\* A call of one function with its result.
Applied(name, parameters, out) ==
    /\ tx_call' = [tool |-> name, parameters |-> parameters]
    /\ tx_out' = [op |-> "function", agent |-> "react", out |-> out]
    /\ UNCHANGED <<tx_text, inv_vars, adv_vars, api_vars, conv_vars, dec_vars>>

\* check_regulatory_thresholds(transaction_amount, transaction_type)
CheckRegulatoryThresholds ==
    /\ tx_out.op = "none"
    /\ \E amount \in Amounts, type \in TransactionTypes :
          Applied("check_regulatory_thresholds",
                  [transaction_amount |-> amount, transaction_type |-> type],
                  check_regulatory_thresholds([transaction_amount |-> amount,
                                               transaction_type |-> type]))

\* assess_structuring_risk(transactions)
AssessStructuringRisk ==
    /\ tx_out.op = "none"
    /\ \E transactions \in SeqsUpTo(Transactions, 3) :
          Applied("assess_structuring_risk", [transactions |-> transactions],
                  assess_structuring_risk([transactions |-> transactions]))

CustomerIds == {"CUST_001", "CUST_002", "CUST_003", "CUST_404"}

\* assess_customer_risk(customer_id), called directly
AssessCustomerRisk ==
    /\ tx_out.op = "none"
    /\ \E customer_id \in CustomerIds :
          Applied("assess_customer_risk", [customer_id |-> customer_id],
                  assess_customer_risk([customer_id |-> customer_id]))

\* settings.sar_risk_threshold, set through the environment.
Thresholds == {500, sar_risk_threshold, 900, 950}

\* self._compile_results(...) under a configured sar_risk_threshold
CompileResults ==
    /\ tx_out.op = "none"
    /\ \E threshold \in Thresholds, evidence \in SeqsUpTo(EvidenceItems, 2),
          tool_executions \in SeqsUpTo(Executions, 1) :
          Applied("_compile_results",
                  [sar_risk_threshold |-> threshold, evidence |-> evidence,
                   tool_executions |-> tool_executions],
                  compile_results_at(threshold, tool_executions, evidence, << >>))

\* self._calculate_final_risk_score(evidence, tool_executions)
CalculateFinalRiskScore ==
    /\ tx_out.op = "none"
    /\ \E evidence \in SeqsUpTo(EvidenceItems, 3), tool_executions \in SeqsUpTo(Executions, 2) :
          Applied("_calculate_final_risk_score",
                  [evidence |-> evidence, tool_executions |-> tool_executions],
                  Ok(_calculate_final_risk_score(evidence, tool_executions)))

\* ---------------------------------------------------------- specifications
\* An investigation by either agent, for every max_iterations up to MaxIter.
InitInvestigate ==
    /\ agent \in {"react", "fraud"}
    /\ max_iterations \in 1..MaxIter
    /\ pc = "loop"
    /\ iteration = 1
    /\ reasoning_trace = << >>
    /\ all_tool_executions = << >>
    /\ all_evidence = << >>
    /\ fraud_indicators = << >>
    /\ context = << >>
    /\ llm_response = NoReply
    /\ llm_calls = 0
    /\ blocks_seen = 0
    /\ result = NoResult
    /\ TxIdle
    /\ AdvIdle
    /\ ApiIdle
    /\ ConvIdle
    /\ DecIdle

NextInvestigate == ProviderRaises \/ LLMReplies \/ Compile

SpecInvestigate == InitInvestigate /\ [][NextInvestigate]_vars

\* The tool executor and the fraud agent's dispatcher applied to inputs.
InitExecutor == InvIdle /\ TxIdle /\ AdvIdle /\ ApiIdle /\ ConvIdle /\ DecIdle

NextExecutor == ParseAndExecute \/ Execute

SpecExecutor == InitExecutor /\ [][NextExecutor]_vars

\* An advisor instance serving provide_advice calls.
InitAdvisor == InvIdle /\ TxIdle /\ AdvIdle /\ ApiIdle /\ ConvIdle /\ DecIdle

NextAdvisor == ProvideAdvice \/ Attempt \/ ParseResponse \/ GetMetrics

SpecAdvisor == InitAdvisor /\ [][NextAdvisor]_vars

\* The AML API serving requests.
InitApi == InvIdle /\ TxIdle /\ AdvIdle /\ ApiIdle /\ ConvIdle /\ DecIdle

NextApi ==
    \/ PostInvestigation
    \/ GetInvestigation
    \/ DeleteInvestigation
    \/ ListInvestigations
    \/ GetStats
    \/ ResponseSent

SpecApi == InitApi /\ [][NextApi]_vars

\* A conversation receiving turns.
InitConversation == InvIdle /\ TxIdle /\ AdvIdle /\ ApiIdle /\ ConvIdle /\ DecIdle

NextConversation == AddTurn

SpecConversation == InitConversation /\ [][NextConversation]_vars

\* The regulatory tools and the final score applied to inputs.
InitFunctions == InvIdle /\ TxIdle /\ AdvIdle /\ ApiIdle /\ ConvIdle /\ DecIdle

NextFunctions ==
    \/ CheckRegulatoryThresholds \/ AssessStructuringRisk \/ CalculateFinalRiskScore
    \/ CompileResults \/ AssessCustomerRisk

SpecFunctions == InitFunctions /\ [][NextFunctions]_vars

\* A function under retry_with_backoff.
InitRetry == InvIdle /\ TxIdle /\ AdvIdle /\ ApiIdle /\ ConvIdle /\ DecIdle

NextRetry == RetryCall \/ RetryInvoke

SpecRetry == InitRetry /\ [][NextRetry]_vars

\* A function under cache_result.
InitCache == InvIdle /\ TxIdle /\ AdvIdle /\ ApiIdle /\ ConvIdle /\ DecIdle

NextCache == CacheDecorate \/ CacheCall

SpecCache == InitCache /\ [][NextCache]_vars

Init == InitInvestigate

Next == NextInvestigate

Spec == SpecInvestigate

\* ------------------------------------------------------------------ claims
Last(s) == s[Len(s)]

Finished == pc \in {"returned", "raised"}

HasCritical(evidence) == \E i \in 1..Len(evidence) : evidence[i].severity = "critical"

\* C1: the result of a ReACT investigation has iterations <= max_iterations.
C1_IterationsWithinMax ==
    (agent = "react" /\ pc = "returned") => result.iterations <= max_iterations

\* C2: every returned result has 0 <= final_risk_score <= 10, and a ReACT
\* result has sar_required exactly when the score is at least 7.0 or some
\* evidence item is critical.
C2_ScoreRangeAndSar ==
    pc = "returned" =>
        /\ result.final_risk_score >= 0
        /\ result.final_risk_score <= 1000
        /\ agent = "react" =>
              (result.sar_required <=>
                  (result.final_risk_score >= 700 \/ HasCritical(result.evidence)))

\* A ReACT result below 7.0 whose SAR requirement comes from critical evidence.
C2_Witness ==
    /\ agent = "react"
    /\ pc = "returned"
    /\ result.final_risk_score < 700
    /\ HasCritical(result.evidence)
    /\ result.sar_required

\* C3: investigate never raises to its caller: it always ends by returning
\* a result with status "completed".
C3_NeverRaises ==
    Finished => (pc = "returned" /\ result.status = "completed")

\* C4: when the provider call raises in iteration k, one ERROR entry is
\* appended for that iteration, no further LLM call is made, and the result
\* is compiled from the executions and evidence of iterations 1..k-1.
C4_ProviderFailureStillCompiles ==
    (Finished /\ reasoning_trace # << >> /\ Last(reasoning_trace).detail = "provider error") =>
        /\ Cardinality({i \in 1..Len(reasoning_trace) : reasoning_trace[i].kind = "ERROR"}) = 1
        /\ llm_calls = Last(reasoning_trace).iteration
        /\ pc = "returned"
        /\ result.tool_executions = all_tool_executions
        /\ result.evidence = all_evidence

\* The reply of this step carries tool calls, each to a registered tool
\* whose function raises.
AllCallsFail(text) ==
    LET calls == _extract_tool_calls(text)
    IN  /\ calls # << >>
        /\ \A i \in 1..Len(calls) :
              /\ Hashable(calls[i].tool)
              /\ calls[i].tool \in Keys(tools)
              /\ tool_func(calls[i].tool, calls[i].parameters).raised

ReplyStep ==
    /\ pc = "loop"
    /\ Len(reasoning_trace') > Len(reasoning_trace)
    /\ reasoning_trace'[Len(reasoning_trace) + 1].kind = "reply"

\* C5: a failing tool call in a ReACT investigation is recorded as one
\* ToolExecution with success = false and a non-empty error, adds no evidence
\* and does not end the loop.
C5_FailedToolRecordedLoopContinues ==
    [][ (agent = "react" /\ ReplyStep /\ AllCallsFail(llm_response')) =>
            /\ Len(all_tool_executions') =
                   Len(all_tool_executions) + Len(_extract_tool_calls(llm_response'))
            /\ \A i \in (Len(all_tool_executions) + 1)..Len(all_tool_executions') :
                  /\ ~all_tool_executions'[i].success
                  /\ all_tool_executions'[i].error # None
            /\ all_evidence' = all_evidence
            /\ Len(reasoning_trace') = Len(reasoning_trace) + 1
            /\ iteration < max_iterations => (pc' = "loop" /\ iteration' = iteration + 1)
      ]_vars

CallBlocks(blocks) == SelectSeq(blocks, LAMBDA b : b.kind = "call")

\* C6: parse_and_execute never raises and returns one result per well-formed
\* block, in order of appearance, whatever other blocks surround them.
C6_OneResultPerWellFormedBlock ==
    (tx_out.op = "parse_and_execute" /\ tx_out.agent = "react") =>
        /\ ~tx_out.out.raised
        /\ Len(tx_out.out.value) = Len(CallBlocks(tx_text.blocks))
        /\ \A i \in 1..Len(tx_out.out.value) :
              tx_out.out.value[i] =
                  execute(CallBlocks(tx_text.blocks)[i].tool,
                          CallBlocks(tx_text.blocks)[i].parameters).value

\* C7: every result of ToolExecutor.execute carries success, tool and
\* parameters, plus result on success and error on failure; for an
\* unregistered name the error names every valid tool.
C7_UniformResultShape ==
    (tx_out.op = "execute" /\ tx_out.agent = "react" /\ ~tx_out.out.raised) =>
        LET r == tx_out.out.value
        IN  /\ {"success", "tool", "parameters"} \subseteq DOMAIN r
            /\ r.success => "result" \in DOMAIN r
            /\ ~r.success => "error" \in DOMAIN r
            /\ tx_call.tool \notin Keys(tools) =>
                  Keys(tools) \subseteq {r.error[i] : i \in 1..Len(r.error)}

\* C8: the fraud agent's result follows the decision ladder: CONFIRMED FRAUD
\* iff s >= 8, High Probability iff 6 <= s < 8, Medium Probability iff
\* 4 <= s < 6, NEEDS REVIEW iff 2 <= s < 4, else LEGITIMATE ACTIVITY;
\* sar_required iff s >= 7; escalation_required iff s >= 8; next_steps is the
\* one action of the tier.
C8_FraudDecisionLadder ==
    (agent = "fraud" /\ pc = "returned") =>
        LET s == result.final_risk_score
        IN  /\ (result.recommendation = "CONFIRMED FRAUD") <=> (s >= 800)
            /\ (result.recommendation = "SUSPECTED FRAUD - High Probability")
                   <=> (600 <= s /\ s < 800)
            /\ (result.recommendation = "SUSPECTED FRAUD - Medium Probability")
                   <=> (400 <= s /\ s < 600)
            /\ (result.recommendation = "NEEDS REVIEW") <=> (200 <= s /\ s < 400)
            /\ (result.recommendation = "LEGITIMATE ACTIVITY") <=> (s < 200)
            /\ result.sar_required <=> (s >= 700)
            /\ result.escalation_required <=> (s >= 800)
            /\ result.next_steps =
                 << CASE s >= 800 -> "Block account immediately and contact customer"
                      [] s >= 600 /\ s < 800 -> "Block transactions and initiate customer verification"
                      [] s >= 400 /\ s < 600 -> "Enhanced monitoring and step-up authentication"
                      [] s >= 200 /\ s < 400 -> "Monitor closely for additional indicators"
                      [] OTHER -> "No action required - continue normal monitoring" >>

\* A fraud result at exactly 8.0: CONFIRMED FRAUD with escalation.
C8_Witness ==
    /\ agent = "fraud"
    /\ pc = "returned"
    /\ result.final_risk_score = 800
    /\ result.recommendation = "CONFIRMED FRAUD"
    /\ result.escalation_required

\* C9: when the provider client raises a provider error on every attempt,
\* call_llm invokes it 4 times (1 attempt + 3 retries) before
\* AdviceGenerationError comes out; a failure on fewer than 4 attempts does
\* not yet raise.
C9_ProviderErrorsAreRetried ==
    ( /\ adv_outcome.kind = "raised"
      /\ adv_outcome.exc = "AdviceGenerationError"
      /\ provider_calls > 0
      /\ provider_errors = provider_calls ) => provider_calls = max_retries + 1

AdviceSteps ==
    << "get_system_prompt", "generate_user_prompt", "call_llm", "parse_response_to_advice" >>

\* C10: a failed call_llm makes provide_advice raise AdviceGenerationError
\* and never return a response; parse_response_to_advice runs only after a
\* call_llm that returned, and the four steps are never skipped or reordered.
C10_FailureSurfacesStepsInOrder ==
    /\ Len(adv_steps) <= 4
    /\ adv_steps = SubSeq(AdviceSteps, 1, Len(adv_steps))
    /\ Len(adv_steps) = 4 => llm_return # NoReturn
    /\ adv_outcome.kind = "returned" => (adv_steps = AdviceSteps /\ llm_return # NoReturn)
    /\ (adv_pc = "idle" /\ Len(adv_steps) = 3) =>
           (adv_outcome.kind = "raised" /\ adv_outcome.exc = "AdviceGenerationError")

\* provide_advice has ended on a failed call_llm.
C10_Witness ==
    /\ adv_pc = "idle"
    /\ adv_steps = SubSeq(AdviceSteps, 1, 3)
    /\ provider_calls > 0
    /\ llm_return = NoReturn
    /\ adv_outcome.kind = "raised"

Range(s) == {s[i] : i \in 1..Len(s)}

\* C11: whatever the order in which POST and DELETE requests are served, the
\* store holds exactly the results of the POSTs that returned 201 and were not
\* deleted since, each under its own id and retrievable by GET; a POST whose
\* investigation raises returns 500 and leaves the store unchanged.
C11_StoreHoldsCompletedInvestigations ==
    /\ Range(investigations) = api_live
    /\ Cardinality(StoredIds(investigations)) = Len(investigations)
    /\ Cardinality(api_live) = Len(investigations)
    /\ \A r \in api_live :
          /\ get_investigation(investigations, r.investigation_id).status = 200
          /\ get_investigation(investigations, r.investigation_id).body = r
    /\ api_resp.op = "post" =>
          /\ api_resp.status \in {201, 500}
          /\ api_resp.status = 500 => investigations = api_resp.before
          /\ api_resp.status = 201 =>
                /\ api_resp.body \in Range(investigations)
                /\ \A i \in 1..Len(api_resp.before) : investigations[i] = api_resp.before[i]

\* Two investigations were stored and one of them deleted: the other is kept.
C11_Witness ==
    /\ api_resp.op = "delete"
    /\ api_resp.status = 200
    /\ api_uuid = 2
    /\ Len(investigations) = 1
    /\ investigations[1].investigation_id # api_resp.args

\* C12: GET or DELETE of an id that is not stored returns 404 and leaves the
\* store unchanged; DELETE of a stored id removes that entry and no other,
\* and afterwards GET and DELETE of that id return 404.
C12_UnknownIs404DeleteRemovesOne ==
    /\ api_gone \cap StoredIds(investigations) = {}
    /\ api_resp.op \in {"get", "delete"} =>
          LET id == api_resp.args
              before == api_resp.before
              others == {r \in Range(before) : r.investigation_id # id}
          IN  /\ id \notin StoredIds(before) =>
                    (api_resp.status = 404 /\ investigations = before)
              /\ (id \in StoredIds(before) /\ api_resp.op = "get") =>
                    (api_resp.status = 200 /\ investigations = before
                     /\ api_resp.body.investigation_id = id)
              /\ (id \in StoredIds(before) /\ api_resp.op = "delete") =>
                    /\ api_resp.status = 200
                    /\ Range(investigations) = others
                    /\ Len(investigations) = Len(before) - 1
                    /\ id \in api_gone

\* A second DELETE of an id that was deleted before.
C12_Witness ==
    /\ api_resp.op = "delete"
    /\ api_resp.status = 404
    /\ api_resp.args \in api_gone
    /\ investigations # << >>

Matches(r, args) ==
    /\ args.sar_required.given => r.sar_required = args.sar_required.v
    /\ args.min_risk_score.given => r.final_risk_score >= args.min_risk_score.v

\* C13: GET /investigations returns total = the number of stored
\* investigations matching the filters, and the investigations at positions
\* offset <= p < offset + limit of the matching ones in descending order of
\* completed_at; nothing that does not match; the store is not modified.
C13_ListIsFilteredSortedPage ==
    api_resp.op = "list" =>
        LET args == api_resp.args
            matching == {r \in Range(api_resp.before) : Matches(r, args)}
            page == api_resp.body.investigations
            positions == {p \in 0..(Cardinality(matching) - 1) :
                             args.offset <= p /\ p < args.offset + args.limit}
            first == IF args.offset < 0 THEN 0 ELSE args.offset
        IN  /\ investigations = api_resp.before
            /\ api_resp.body.total = Cardinality(matching)
            /\ Range(page) \subseteq matching
            /\ Len(page) = Cardinality(positions)
            /\ Cardinality(Range(page)) = Len(page)
            /\ \A j \in 1..Len(page) :
                  LET p == first + j - 1
                  IN  /\ Cardinality({r \in matching : r.completed_at > page[j].completed_at}) <= p
                      /\ Cardinality({r \in matching : r.completed_at >= page[j].completed_at}) > p

\* C14: GET /stats always carries the histogram low/medium/high/critical
\* whose counts add up to total_investigations, the breakdown by alert type
\* with the one bucket "unknown" counting all investigations, and
\* sar_filed <= total_investigations; also for the empty store.
C14_StatsHistogram ==
    api_resp.op = "stats" =>
        LET b == api_resp.body
        IN  /\ "by_risk_level" \in DOMAIN b
            /\ DOMAIN b.by_risk_level = {"low", "medium", "high", "critical"}
            /\ b.by_risk_level.low + b.by_risk_level.medium
                 + b.by_risk_level.high + b.by_risk_level.critical = b.total_investigations
            /\ b.by_risk_level.critical =
                   Cardinality({i \in 1..Len(investigations) :
                                   investigations[i].final_risk_score >= 800})
            /\ "by_alert_type" \in DOMAIN b
            /\ b.by_alert_type = [unknown |-> b.total_investigations]
            /\ b.sar_filed <= b.total_investigations
            /\ b.total_investigations = Len(investigations)

\* The function applied in this state, if any.
AppliedIs(name) == tx_out.op = "function" /\ tx_call.tool = name

\* C15: check_regulatory_thresholds sets ctr_required exactly when the amount
\* is at least 10000, sets potential_structuring (and lists it among the
\* sar_indicators) exactly when 9000 <= amount < 10000, and sets
\* sar_consideration_required exactly when sar_indicators is not empty.
C15_ThresholdFlags ==
    AppliedIs("check_regulatory_thresholds") =>
        LET amount == tx_call.parameters.transaction_amount
            res == tx_out.out.value
        IN  /\ ~tx_out.out.raised
            /\ res.ctr_required = (amount >= 10000)
            /\ (Get(res, "potential_structuring", FALSE) = TRUE)
                   <=> (9000 <= amount /\ amount < 10000)
            /\ ("potential_structuring" \in Range(res.sar_indicators))
                   <=> (9000 <= amount /\ amount < 10000)
            /\ ("sar_consideration_required" \in DOMAIN res)
                   <=> (res.sar_indicators # << >>)
            /\ ("sar_consideration_required" \in DOMAIN res)
                   => res.sar_consideration_required = TRUE

C15_Witness ==
    /\ AppliedIs("check_regulatory_thresholds")
    /\ tx_call.parameters.transaction_amount = 9000
    /\ tx_out.out.value.potential_structuring = TRUE
    /\ tx_out.out.value.sar_consideration_required = TRUE
    /\ ~tx_out.out.value.ctr_required

\* The risk level the source assigns to a number of fired indicators.
LevelFor(n) ==
    IF n >= 3 THEN "critical" ELSE IF n = 2 THEN "high" ELSE IF n = 1 THEN "medium" ELSE "low"

\* C16: assess_structuring_risk answers an empty list with an error marker and
\* no structuring_risk_level; otherwise it counts the transactions strictly
\* between 90% of the threshold and the threshold, sets the level to
\* critical/high/medium/low for >= 3 / 2 / 1 / 0 fired indicators, recommends a
\* SAR exactly when the level is high or critical, and is never low with
\* three or more such transactions.
C16_StructuringLevel ==
    AppliedIs("assess_structuring_risk") =>
        LET transactions == tx_call.parameters.transactions
            res == tx_out.out.value
            between == {i \in 1..Len(transactions) :
                           /\ "amount" \in DOMAIN transactions[i]
                           /\ transactions[i].amount > 9000
                           /\ transactions[i].amount < 10000}
        IN  /\ ~tx_out.out.raised
            /\ transactions = << >> =>
                  "error" \in DOMAIN res /\ "structuring_risk_level" \notin DOMAIN res
            /\ transactions # << >> =>
                  /\ "error" \notin DOMAIN res
                  /\ res.under_threshold_transactions = Cardinality(between)
                  /\ res.indicators_found = Len(res.indicators)
                  /\ res.structuring_risk_level = LevelFor(Len(res.indicators))
                  /\ res.sar_recommended
                         = (res.structuring_risk_level \in {"high", "critical"})
                  /\ Cardinality(between) >= 3 => res.structuring_risk_level # "low"

C16_Witness ==
    /\ AppliedIs("assess_structuring_risk")
    /\ Len(tx_call.parameters.transactions) = 3
    /\ \A i \in 1..3 : Get(tx_call.parameters.transactions[i], "amount", 0) \in {9001, 9800, 9999}
    /\ tx_out.out.value.under_threshold_transactions = 3
    /\ tx_out.out.value.structuring_risk_level = "critical"
    /\ tx_out.out.value.sar_recommended


\* min(10, 5.0 + 2.0 * #critical + 1.0 * #high + 0.5 * #medium), in hundredths.
SeverityHeuristic(evidence) ==
    LET n(sev) == Cardinality({i \in 1..Len(evidence) : evidence[i].severity = sev})
        sum == 500 + 200 * n("critical") + 100 * n("high") + 50 * n("medium")
    IN  IF sum > 1000 THEN 1000 ELSE sum

\* The index of the first execution of a scoring tool, 0 if there is none.
FirstScoring(tool_executions) ==
    LET scored == {i \in 1..Len(tool_executions) :
                      tool_executions[i].tool_name
                          \in {"calculate_risk_score", "assess_customer_risk"}}
    IN  IF scored = {} THEN 0 ELSE CHOOSE i \in scored : \A j \in scored : i <= j

\* The name of the score field of a scoring tool's result.
ScoreField(tool_name) ==
    IF tool_name = "calculate_risk_score" THEN "final_risk_score" ELSE "adjusted_risk_score"

\* C20: the final risk score is the score field of the first execution of
\* calculate_risk_score (final_risk_score) or assess_customer_risk
\* (adjusted_risk_score), or 5.0 when that execution's result has no such
\* field; only when neither tool ran is it the severity heuristic, to which
\* low-severity evidence adds nothing.
C20_ScoreFromFirstScoringToolOrDefault ==
    AppliedIs("_calculate_final_risk_score") =>
        LET evidence == tx_call.parameters.evidence
            tool_executions == tx_call.parameters.tool_executions
            score == tx_out.out.value
            first == FirstScoring(tool_executions)
        IN  IF first # 0
            THEN LET e == tool_executions[first]
                 IN  IF ScoreField(e.tool_name) \in DOMAIN e.result
                     THEN score = e.result[ScoreField(e.tool_name)]
                     ELSE score = 500
            ELSE score = SeverityHeuristic(evidence)

\* A failed scoring execution comes first: the score is 5.0 although a later
\* scoring execution succeeded and the evidence is critical.
C20_Witness ==
    /\ AppliedIs("_calculate_final_risk_score")
    /\ Len(tx_call.parameters.tool_executions) = 2
    /\ tx_call.parameters.tool_executions[1].tool_name = "assess_customer_risk"
    /\ ~tx_call.parameters.tool_executions[1].success
    /\ tx_call.parameters.tool_executions[2].tool_name = "calculate_risk_score"
    /\ tx_call.parameters.tool_executions[2].success
    /\ \E i \in 1..Len(tx_call.parameters.evidence) :
          tx_call.parameters.evidence[i].severity = "critical"
    /\ tx_out.out.value = 500

\* C20 as stated: the score is always the score field of the first scoring
\* execution, and the heuristic is used only when no scoring tool ran.
C20_ScoreFromFirstScoringTool ==
    AppliedIs("_calculate_final_risk_score") =>
        LET evidence == tx_call.parameters.evidence
            tool_executions == tx_call.parameters.tool_executions
            score == tx_out.out.value
            first == FirstScoring(tool_executions)
        IN  IF first # 0
            THEN LET e == tool_executions[first]
                 IN  /\ ScoreField(e.tool_name) \in DOMAIN e.result
                     /\ score = e.result[ScoreField(e.tool_name)]
            ELSE score = SeverityHeuristic(evidence)


\* C17: after n calls of add_turn the conversation has n turns, turn i has
\* turn_id i, updated_at is not before started_at, and a call never changes,
\* removes or reorders the turns that were there before it.
C17_TurnsAppendOnly ==
    /\ [](/\ Len(conversation.turns) = add_turn_calls
          /\ \A i \in 1..Len(conversation.turns) : conversation.turns[i].turn_id = i
          /\ conversation.updated_at >= conversation.started_at)
    /\ [][\A i \in 1..Len(conversation.turns) :
              /\ i <= Len(conversation'.turns)
              /\ conversation'.turns[i] = conversation.turns[i]]_vars

C17_Witness ==
    /\ add_turn_calls = 3
    /\ Len(conversation.turns) = 3
    /\ conversation.turns[3].turn_id = 3
    /\ conversation.turns[1].user_message # conversation.turns[3].user_message
    /\ conversation.updated_at > conversation.turns[3].timestamp
    /\ conversation.updated_at > conversation.started_at


\* A ReACT iteration whose reply carries no tool call.
NoCallReplyStep ==
    agent = "react" /\ ReplyStep /\ _extract_tool_calls(llm_response') = << >>

\* C18: in the ReACT loop a reply without a tool call ends the loop when it
\* contains "FINAL RECOMMENDATION" or, in any case, "SAR", and no LLM call
\* follows the end of the loop; without either marker the context, the tool
\* executions and the evidence stay as they were and, while iterations
\* remain, the loop goes on to the next iteration.
C18_MarkerEndsLoopElseContinues ==
    /\ [][ NoCallReplyStep =>
             IF \/ Contains(llm_response'.prose, "FINAL RECOMMENDATION")
                \/ Contains(Upper(llm_response'.prose), "SAR")
             THEN pc' = "compile"
             ELSE /\ context' = context
                  /\ all_tool_executions' = all_tool_executions
                  /\ all_evidence' = all_evidence
                  /\ iteration < max_iterations =>
                         (pc' = "loop" /\ iteration' = iteration + 1)
         ]_vars
    /\ [][ pc # "loop" => llm_calls' = llm_calls ]_vars

\* A lower-case "sar" in a reply without tool calls ended the loop with an
\* iteration to spare.
C18_Witness ==
    /\ agent = "react"
    /\ pc = "compile"
    /\ llm_calls = 1
    /\ iteration = 1
    /\ max_iterations = 2
    /\ llm_response.prose = "we should file a sar"
    /\ llm_response.blocks # << >>
    /\ _extract_tool_calls(llm_response) = << >>
    /\ Len(reasoning_trace) = 1
    /\ reasoning_trace[1].kind = "reply"


\* The call names a tool of the registry, so execute hands it to a function.
Dispatched(call) == Hashable(call.tool) /\ call.tool \in Keys(tools)

\* s without its first n elements.
Drop(s, n) == SubSeq(s, n + 1, Len(s))

\* C19: every tool call the executor dispatches in a ReACT iteration becomes
\* exactly one ToolExecution, in dispatch order, and one line of the context
\* for the next prompt, whatever the other calls of the same reply do.
C19_EveryDispatchedCallRecorded ==
    [][ (agent = "react" /\ ReplyStep) =>
            LET calls == SelectSeq(_extract_tool_calls(llm_response'), Dispatched)
                recorded == SelectSeq(Drop(all_tool_executions', Len(all_tool_executions)),
                                      LAMBDA e : e.tool_name \in Keys(tools))
                lines == SelectSeq(Drop(context', Len(context)),
                                   LAMBDA l : l.tool \in Keys(tools))
            IN  /\ Len(all_tool_executions') >= Len(all_tool_executions)
                /\ Len(context') >= Len(context)
                /\ Len(recorded) = Len(calls)
                /\ \A i \in 1..Len(calls) :
                      /\ recorded[i].tool_name = calls[i].tool
                      /\ recorded[i].parameters = calls[i].parameters
                /\ Len(lines) = Len(calls)
                /\ \A i \in 1..Len(calls) : lines[i].tool = calls[i].tool
      ]_vars


SarSteps ==
    { "File Suspicious Activity Report (SAR) within required timeframe",
      "Document all evidence and investigation steps",
      "Notify compliance management" }

EddSteps ==
    {"Enhanced Due Diligence (EDD) required", "Increase transaction monitoring frequency to daily"}

PatternSteps ==
    { "Review historical transactions for similar patterns",
      "Check for related accounts or beneficiaries" }

FallbackSteps == {"Continue standard monitoring", "Review case in 30 days"}

HasStructuring(evidence) ==
    \E i \in 1..Len(evidence) : evidence[i].evidence_type = "structuring"

\* C21: the next_steps of a ReACT result are never empty; they hold the three
\* SAR steps iff sar_required, the two EDD steps iff the score is at least 7,
\* the two pattern-review steps iff some evidence is of type "structuring",
\* and the two fallback steps iff none of these three conditions holds.
C21_NextSteps ==
    (agent = "react" /\ pc = "returned") =>
        LET steps == Range(result.next_steps)
            sar == result.sar_required
            edd == result.final_risk_score >= 700
            pattern == HasStructuring(result.evidence)
        IN  /\ result.next_steps # << >>
            /\ IF sar THEN SarSteps \subseteq steps ELSE SarSteps \cap steps = {}
            /\ IF edd THEN EddSteps \subseteq steps ELSE EddSteps \cap steps = {}
            /\ IF pattern THEN PatternSteps \subseteq steps ELSE PatternSteps \cap steps = {}
            /\ IF ~sar /\ ~edd /\ ~pattern
               THEN FallbackSteps \subseteq steps
               ELSE FallbackSteps \cap steps = {}

\* A SAR for structuring evidence under a tool score below 7: SAR and
\* pattern-review steps without the EDD steps.
C21_Witness ==
    /\ agent = "react"
    /\ pc = "returned"
    /\ result.sar_required
    /\ result.final_risk_score < 700
    /\ HasStructuring(result.evidence)
    /\ Len(result.next_steps) = 5

\* The recommendation starts with "FILE SAR".
StartsWithFileSar(recommendation) ==
    recommendation \in {"FILE SAR IMMEDIATELY - Critical evidence detected",
                        "FILE SAR - Suspicious activity confirmed with substantial evidence"}

\* _compile_results returned a result under a threshold of at most 9.0.
CompiledUpTo9 ==
    /\ AppliedIs("_compile_results")
    /\ ~tx_out.out.raised
    /\ tx_call.parameters.sar_risk_threshold <= 900

\* C28: in a ReACT result compiled with sar_risk_threshold <= 9.0,
\* escalation_required implies sar_required, sar_required holds exactly when
\* the recommendation starts with "FILE SAR" and exactly when sar_reasoning
\* is present, and the recommendation is "FILE SAR IMMEDIATELY" exactly when
\* some evidence is critical.
C28_EscalationSarRecommendation ==
    CompiledUpTo9 =>
        LET res == tx_out.out.value
        IN  /\ res.escalation_required => res.sar_required
            /\ res.sar_required <=> StartsWithFileSar(res.recommendation)
            /\ res.sar_required <=> (res.sar_reasoning # None)
            /\ (res.recommendation = "FILE SAR IMMEDIATELY - Critical evidence detected")
                   <=> HasCritical(res.evidence)

\* An escalated result without critical evidence: "FILE SAR", not immediately.
C28_Witness ==
    /\ CompiledUpTo9
    /\ tx_out.out.value.escalation_required
    /\ tx_out.out.value.sar_required
    /\ ~HasCritical(tx_out.out.value.evidence)
    /\ tx_out.out.value.evidence # << >>
    /\ tx_out.out.value.recommendation
           = "FILE SAR - Suspicious activity confirmed with substantial evidence"
    /\ tx_out.out.value.sar_reasoning # None


\* min(10, base + 2 if PEP + 1.5 if high-risk country + 1 if cash-intensive
\* + 2 * previous_sars + 1.5 * news items + 0.5 if business owner with an
\* income below 60000), in hundredths.
AdjustedScore(profile, news_items) ==
    LET sum == profile.risk_score
               + (IF profile.pep_status THEN 200 ELSE 0)
               + (IF profile.high_risk_country THEN 150 ELSE 0)
               + (IF profile.cash_intensive_business THEN 100 ELSE 0)
               + 200 * profile.previous_sars
               + 150 * news_items
               + (IF profile.has_business_type /\ profile.annual_income < 60000
                  THEN 50 ELSE 0)
    IN  IF sum > 1000 THEN 1000 ELSE sum

\* C22: assess_customer_risk returns for each known mock customer the adjusted
\* score, the risk level at 8 / 6 / 4 and enhanced_due_diligence_required iff
\* the score is at least 7; for an unknown customer only the error marker.
C22_AssessCustomerRisk ==
    AppliedIs("assess_customer_risk") =>
        LET customer_id == tx_call.parameters.customer_id
        IN  /\ ~tx_out.out.raised
            /\ IF customer_id \in DOMAIN MOCK_CUSTOMERS
               THEN LET res == tx_out.out.value
                        score == AdjustedScore(MOCK_CUSTOMERS[customer_id],
                                      IF MOCK_CUSTOMERS[customer_id].name = "John Davidson"
                                      THEN 1 ELSE 0)
                    IN  /\ res.adjusted_risk_score = score
                        /\ res.risk_level = (IF score >= 800 THEN "critical"
                                             ELSE IF score >= 600 THEN "high"
                                             ELSE IF score >= 400 THEN "medium" ELSE "low")
                        /\ res.enhanced_due_diligence_required = (score >= 700)
               ELSE tx_out.out.value
                        = [customer_id |-> customer_id, error |-> "Customer not found"]


\* C27: with the default threshold assess_structuring_risk never reports the
\* level "medium" for a list of transactions: multiple_under_threshold never
\* fires without total_exceeds_threshold, two or more transactions strictly
\* between 9000 and 10000 give high or critical with sar_recommended, and
\* fewer give low without it.
C27_NeverMedium ==
    (AppliedIs("assess_structuring_risk") /\ tx_call.parameters.transactions # << >>) =>
        LET transactions == tx_call.parameters.transactions
            res == tx_out.out.value
            such == Cardinality({i \in 1..Len(transactions) :
                        /\ Get(transactions[i], "amount", 0) > 9000
                        /\ Get(transactions[i], "amount", 0) < 10000})
            fired == Range(res.indicators)
        IN  /\ res.structuring_risk_level # "medium"
            /\ ("multiple_under_threshold" \in fired) <=> (such >= 2)
            /\ ("multiple_under_threshold" \in fired) => ("total_exceeds_threshold" \in fired)
            /\ IF such >= 2
               THEN res.structuring_risk_level \in {"high", "critical"} /\ res.sar_recommended
               ELSE res.structuring_risk_level = "low" /\ ~res.sar_recommended

\* Two such transactions on different days: two indicators, level high.
C27_Witness ==
    /\ AppliedIs("assess_structuring_risk")
    /\ Len(tx_call.parameters.transactions) = 2
    /\ tx_out.out.value.under_threshold_transactions = 2
    /\ tx_out.out.value.indicators = << "multiple_under_threshold", "total_exceeds_threshold" >>
    /\ tx_out.out.value.structuring_risk_level = "high"
    /\ tx_out.out.value.sar_recommended


\* C26: across any sequence of POST and DELETE requests on one date no two
\* investigations are given the same case_id.
C26_CaseIdsUnique ==
    \A i, j \in 1..Len(api_cases) : i # j => api_cases[i] # api_cases[j]


\* The call names a registered tool of the agent and carries a JSON object.
Executable(ag, call) ==
    /\ Hashable(call.tool)
    /\ call.tool \in Keys(IF ag = "react" THEN tools ELSE fraud_tools)
    /\ call.parameters.mapping

\* C29: in both loops a reply with at least one executable tool call never
\* ends the loop, whatever markers it carries: while iterations remain the
\* next one follows, so that the LLM is called max_iterations times.
C29_ToolCallNeverEndsLoop ==
    [][ (/\ ReplyStep
         /\ \E i \in 1..Len(_extract_tool_calls(llm_response')) :
               Executable(agent, _extract_tool_calls(llm_response')[i]))
        => IF iteration < max_iterations
           THEN pc' = "loop" /\ iteration' = iteration + 1
           ELSE pc' = "compile" /\ llm_calls' = max_iterations
      ]_vars


\* The call_llm body is entered in this step.
CallLlmEntered == adv_pc = "call_llm" /\ provider_calls' = provider_calls + 1

\* C30: total_requests counts the entries into the call_llm body, failed or
\* not; total_tokens and total_cost never decrease and change only in a step
\* in which the provider call succeeded; get_metrics returns the totals with
\* their averages per request, which are 0 while total_requests is 0.
C30_MetricsTotals ==
    /\ [][ /\ total_requests' = total_requests + (IF CallLlmEntered THEN 1 ELSE 0)
           /\ total_tokens' >= total_tokens
           /\ total_cost' >= total_cost
           /\ (total_tokens' # total_tokens \/ total_cost' # total_cost)
                  => (CallLlmEntered /\ adv_pc' = "parse" /\ llm_return' # NoReturn)
           /\ (CallLlmEntered /\ adv_pc' # "parse")
                  => (total_tokens' = total_tokens /\ total_cost' = total_cost)
         ]_vars
    /\ [](metrics # NoMetrics =>
            /\ metrics.total_requests >= 0
            /\ metrics.total_requests = 0 =>
                  (metrics.avg_tokens_per_request = 0 /\ metrics.avg_cost_per_request = 0)
            /\ metrics.total_requests > 0 =>
                  /\ metrics.avg_tokens_per_request
                         = (100 * metrics.total_tokens) \div metrics.total_requests
                  /\ metrics.avg_cost_per_request
                         = (100 * metrics.total_cost) \div metrics.total_requests)
    /\ [][ metrics' # metrics =>
              /\ metrics'.total_requests = total_requests
              /\ metrics'.total_tokens = total_tokens
              /\ metrics'.total_cost = total_cost ]_vars

\* get_metrics was asked before any request and gave averages of 0; of the
\* two requests made since, one failed and one succeeded (a successful one
\* counts at least 2 thousand tokens).
C30_Witness ==
    /\ metrics # NoMetrics
    /\ metrics.total_requests = 0
    /\ metrics.avg_tokens_per_request = 0
    /\ metrics.avg_cost_per_request = 0
    /\ total_requests = 2
    /\ total_tokens > 0
    /\ total_tokens <= 3
    /\ total_cost > 0


\* C23: a function under retry_with_backoff(max_retries=N, initial_delay=d,
\* backoff_factor=b, exceptions=E) is invoked at most N+1 times per call; the
\* first success is returned at once, an exception outside E propagates at
\* once, after N+1 failures in E the last exception is raised, and the sleep
\* before the k-th retry is d * b^(k-1), with none after the final failure.
C23_RetryWithBackoff ==
    (/\ retry.pc # "idle"
     /\ retry.args.max_retries.given
     /\ retry.args.initial_delay.given
     /\ retry.args.backoff_factor.given) =>
        LET N == retry.args.max_retries.v
            d == retry.args.initial_delay.v
            b == retry.args.backoff_factor.v
            E == retry.args.exceptions
            outcomes == retry.outcomes
            n == Len(outcomes)
            InE(o) == o.kind = "raise" /\ IsInstance(o.exc, E)
        IN  /\ n <= N + 1
            /\ \A i \in 1..(n - 1) : InE(outcomes[i])
            /\ (n > 0 /\ outcomes[n].kind = "ok") =>
                  (retry.pc = "returned" /\ retry.out = Ok(outcomes[n].value))
            /\ (n > 0 /\ outcomes[n].kind = "raise" /\ ~InE(outcomes[n])) =>
                  (retry.pc = "raised" /\ retry.out = Raise(outcomes[n].exc))
            /\ (n = N + 1 /\ InE(outcomes[n])) =>
                  (retry.pc = "raised" /\ retry.out = Raise(outcomes[n].exc))
            /\ Len(retry.slept) <= N
            /\ \A k \in 1..Len(retry.slept) : retry.slept[k] = d * Pow(b, k - 1)
            /\ retry.pc \in {"returned", "raised"} => Len(retry.slept) = n - 1


\* A call of the cached function has returned.
CacheCalled == cache.pc = "ready" /\ cache.last.invoked # -1

\* C24: a call whose arguments were cached less than ttl_seconds ago returns
\* the cached value without invoking the function; any other call invokes it
\* exactly once and stores the new value with the current time; a call never
\* returns a value computed for other arguments.
C24_CacheHitsAndMisses ==
    CacheCalled =>
        LET last == cache.last
            key == cache_key(last.sig)
            cached == key \in DOMAIN last.before
            age == last.at - last.before[key].timestamp
        IN  /\ last.returned.computed_for = Bound(last.sig)
            /\ IF cached /\ age < cache.ttl_seconds
               THEN /\ last.invoked = 0
                    /\ last.returned = last.before[key].result
               ELSE /\ last.invoked = 1
                    /\ last.returned.invocation = cache.invocations
                    /\ key \in DOMAIN cache.entries
                    /\ cache.entries[key] = [result |-> last.returned, timestamp |-> last.at]

\* The entry for f(1) has expired: the call is a miss and a new value is stored.
C24_Witness ==
    /\ CacheCalled
    /\ cache.calls = 3
    /\ cache_key(cache.last.sig) \in DOMAIN cache.last.before
    /\ cache.last.at - cache.last.before[cache_key(cache.last.sig)].timestamp
           = cache.ttl_seconds
    /\ cache.last.invoked = 1
    /\ cache.last.returned.invocation = 3
    /\ Cardinality(DOMAIN cache.entries) = 2

\* C25: after any call of the cached function, hit or miss, the cache holds
\* no entry whose age is at least ttl_seconds.
C25_NoExpiredEntryAfterCall ==
    CacheCalled =>
        \A k \in DOMAIN cache.entries :
            cache.now - cache.entries[k].timestamp < cache.ttl_seconds


====
